---- MODULE Spec2Model ----
(***************************************************************************)
(* Model of the AI Virtual Lab backend: the orchestrator (VirtualLab), its *)
(* agents, and the request handlers of routes/upload.py with the in-memory *)
(* session store.                                                          *)
(*                                                                         *)
(* Conventions                                                             *)
(*  - a Python dict is a function over its keys (a record); key presence   *)
(*    is membership in DOMAIN; {} is the empty function << >>;             *)
(*  - a Python float is an integer of hundredths where it is a confidence  *)
(*    (0.8 is 80) and an integer where it is a progress value (15.0 is 15);*)
(*  - a call that may raise yields Return(v) or Raise(description);        *)
(*  - one action is one uninterrupted run of the asyncio event loop: from  *)
(*    the resumption of a coroutine to its next real suspension.           *)
(*    OpenAIService.chat_completion is declared async but calls the        *)
(*    synchronous client (openai_service.py:143), so a coroutine does not  *)
(*    suspend inside analyze_brief / generate_full_analysis: a whole phase *)
(*    is part of the step that runs it.  The streaming generator suspends  *)
(*    at asyncio.sleep and at each yield.                                  *)
(***************************************************************************)
EXTENDS Integers, Sequences, FiniteSets, TLC

VARIABLES project_sessions, streams, http, requests, lab

vars == <<project_sessions, streams, http, requests, lab>>

\* ------------------------------------------------------------------ bounds
\* Number of uploads the store can hold (ids 1..MaxProjects).
MaxProjects == 1
\* Number of streaming responses that can be open at the same time.
MaxStreams == 1
\* Number of requests the server receives.
MaxRequests == 4
\* Pieces in a text given to the response parser.
MaxTokens == 4

\* ----------------------------------------------------------- Python values
None == "None"
EmptyDict == << >>
Put(d, k, v) == (k :> v) @@ d
Get(d, k, default) == IF k \in DOMAIN d THEN d[k] ELSE default
Last(s) == s[Len(s)]

Return(v) == [raised |-> FALSE, value |-> v]
Raise(e) == [raised |-> TRUE, exc |-> e]

\* datetime.utcnow().isoformat(): the instant is not modelled, only that a
\* timestamp is present.
utcnow == "utcnow"

\* ---------------------------------------------------- models/state.py
PI == "Principal Investigator"
IMMUNOLOGIST == "Immunologist"
ML_SPECIALIST == "ML Specialist"
COMP_BIOLOGIST == "Computational Biologist"

STEP_START == "step_start"
STEP_COMPLETE == "step_complete"
AGENT_THINKING == "agent_thinking"
ERROR == "error"

AgentInput(agent, analysis, recommendation, confidence, reasoning) ==
    [agent |-> agent, analysis |-> analysis, recommendation |-> recommendation,
     confidence |-> confidence, reasoning |-> reasoning]

ProjectState(text) ==
    [text |-> text, agent_inputs |-> <<>>, extracted_data |-> EmptyDict,
     strategy |-> EmptyDict, status |-> "started", error |-> "",
     current_agent |-> None]

\* state.metadata = {...}: ProjectState declares no field "metadata".  The
\* pydantic base class (outside the repository) decides whether the
\* assignment is accepted; both outcomes are drawn (accepts_extra).
set_metadata(state, confirmed_data, accepts_extra) ==
    IF accepts_extra
    THEN Return(Put(state, "metadata", [confirmed_parameters |-> confirmed_data]))
    ELSE Raise("\"ProjectState\" object has no field \"metadata\"")

\* ------------------------------------------------ Completion Client texts
\* A response of the Completion Client is [ok, content]: the text returned,
\* or the provider's failure.  Texts are named by what they contain.
FactsJsonText == "{target: HER2, timeline: 2 months, budget: $30,000, goal: therapeutic, confidence: 0.9}"
StrategyJsonText == "{title: De Novo Design, rationale: [..3..], candidates: [], confidence: 0.85, alternatives: []}"
OtherJsonText == "{title: Hybrid Approach, rationale: []}"
ListJsonText == "[1, 2]"
ProseText == "Sure! Here is what I found in the brief."
OpinionModifyText == "Existing scaffolds fit.\nConfidence: 0.85\n- proven scaffolds\n- short timeline"
OpinionDeNovoText == "I recommend De Novo design for this target."
OpinionBadConfText == "Modify existing binders. My confidence: 0.85."

ProviderFailure == [ok |-> FALSE, content |-> "timeout"]
TextResponse(t) == [ok |-> TRUE, content |-> t]

ExtractionOutcomes ==
    {ProviderFailure} \cup
    {TextResponse(t) : t \in {FactsJsonText, OtherJsonText, ListJsonText, ProseText}}
OpinionOutcomes ==
    {ProviderFailure} \cup
    {TextResponse(t) : t \in {OpinionModifyText, OpinionDeNovoText, OpinionBadConfText}}
SynthesisOutcomes ==
    {ProviderFailure} \cup
    {TextResponse(t) : t \in {StrategyJsonText, OtherJsonText, ListJsonText, ProseText}}

\* json.loads(text): the decoded value, or JSONDecodeError.  A JSON array
\* is tagged json_array so that it is not a dict.
json_loads(text) ==
    CASE text = FactsJsonText ->
           Return([target |-> "HER2", timeline |-> "2 months", budget |-> "$30,000",
                   goal |-> "therapeutic", confidence |-> 90])
      [] text = StrategyJsonText ->
           Return([title |-> "De Novo Design",
                   rationale |-> <<[icon |-> "Clock", label |-> "Timeline Match", description |-> "team"],
                                   [icon |-> "TrendingUp", label |-> "Success Rate", description |-> "team"],
                                   [icon |-> "DollarSign", label |-> "Budget Aligned", description |-> "team"]>>,
                   candidates |-> <<>>, confidence |-> 85, alternatives |-> <<>>])
      [] text = OtherJsonText ->
           Return([title |-> "Hybrid Approach", rationale |-> <<>>])
      [] text = ListJsonText ->
           Return([json_array |-> <<1, 2>>])
      [] OTHER -> Raise("JSONDecodeError")

IsDict(v) == "json_array" \notin DOMAIN v

\* -------------------------------------------- services/openai_service.py
chat_completion(prompt, outcome) ==
    IF outcome.ok
    THEN Return(outcome.content)
    ELSE Raise("Chat completion failed: " \o outcome.content)

\* ------------------------------------------------- agents/base_agent.py
\* What the parser reads in a response text: whether "de novo" occurs in
\* the lowercased text, the token the regular expression
\* confidence[:\s]*([0-9.]+) captures (None when it does not match), and the
\* stripped lines that start with "- ".
TextFeatures(response) ==
    CASE response = OpinionModifyText ->
           [de_novo |-> FALSE, conf_token |-> "0.85",
            bullets |-> <<"proven scaffolds", "short timeline">>]
      [] response = OpinionDeNovoText ->
           [de_novo |-> TRUE, conf_token |-> None, bullets |-> <<>>]
      [] response = OpinionBadConfText ->
           [de_novo |-> FALSE, conf_token |-> "0.85.", bullets |-> <<>>]
      [] OTHER ->
           [de_novo |-> FALSE, conf_token |-> None, bullets |-> <<>>]

\* float(token), in hundredths.
python_float(token) ==
    CASE token = "0.85" -> Return(85)
      [] OTHER -> Raise("could not convert string to float: '" \o token \o "'")

parse_response(response) ==
    LET f == TextFeatures(response)
        recommendation == IF f.de_novo THEN "De Novo Design"
                          ELSE "Modify Existing Nanobodies"
        confidence == IF f.conf_token # None THEN python_float(f.conf_token)
                      ELSE Return(70)
    IN  IF confidence.raised THEN confidence
        ELSE Return([analysis |-> response, recommendation |-> recommendation,
                     confidence |-> confidence.value, reasoning |-> f.bullets])

\* Decimal digits, as int() and float() read them.
DigitValue(c) ==
    CASE c = "0" -> 0 [] c = "1" -> 1 [] c = "2" -> 2 [] c = "3" -> 3 [] c = "4" -> 4
      [] c = "5" -> 5 [] c = "6" -> 6 [] c = "7" -> 7 [] c = "8" -> 8 [] c = "9" -> 9

DigitChar(d) == <<"0", "1", "2", "3", "4", "5", "6", "7", "8", "9">>[d + 1]

\* int(s) for a string of decimal digits.
RECURSIVE python_int(_)
python_int(s) ==
    IF Len(s) = 0 THEN 0
    ELSE python_int(SubSeq(s, 1, Len(s) - 1)) * 10 + DigitValue(s[Len(s)])

\* ---- _parse_response on the characters of a text
\* A text is the sequence of its characters.  The operators below are the
\* str and re operations _parse_response uses, on such sequences; the
\* parser on named texts above reads the same features from TextFeatures.
Whitespace == {" ", "\n", "\t", "\r"}
Digits == {"0", "1", "2", "3", "4", "5", "6", "7", "8", "9"}

UpperLetters == <<"A", "B", "C", "D", "E", "F", "G", "H", "I", "J", "K", "L", "M",
                  "N", "O", "P", "Q", "R", "S", "T", "U", "V", "W", "X", "Y", "Z">>
LowerLetters == <<"a", "b", "c", "d", "e", "f", "g", "h", "i", "j", "k", "l", "m",
                  "n", "o", "p", "q", "r", "s", "t", "u", "v", "w", "x", "y", "z">>

\* Variant: the text is searched in its own letter case.
str_keep_case(s) == s

\* str.lower()
str_lower(s) ==
    [i \in 1..Len(s) |->
        IF \E k \in 1..26 : UpperLetters[k] = s[i]
        THEN LowerLetters[CHOOSE k \in 1..26 : UpperLetters[k] = s[i]]
        ELSE s[i]]

\* str.strip(chars): the characters of the set are removed at both ends.
str_strip(s, chars) ==
    LET kept == {i \in 1..Len(s) : s[i] \notin chars}
    IN  IF kept = {} THEN <<>>
        ELSE SubSeq(s, CHOOSE i \in kept : \A j \in kept : i <= j,
                       CHOOSE i \in kept : \A j \in kept : i >= j)

\* str.split(sep) for a separator of one character.
RECURSIVE str_split(_, _)
str_split(s, sep) ==
    IF \A i \in 1..Len(s) : s[i] # sep THEN <<s>>
    ELSE LET i == CHOOSE i \in 1..Len(s) : s[i] = sep /\ \A j \in 1..(i - 1) : s[j] # sep
         IN  <<SubSeq(s, 1, i - 1)>> \o str_split(SubSeq(s, i + 1, Len(s)), sep)

\* str.startswith(prefix)
str_startswith(s, prefix) ==
    Len(s) >= Len(prefix) /\ SubSeq(s, 1, Len(prefix)) = prefix

\* sub in s
str_contains(s, sub) ==
    \E i \in 1..(Len(s) - Len(sub) + 1) : SubSeq(s, i, i + Len(sub) - 1) = sub

\* The last index of the longest run of characters of a class that starts
\* at index from (from - 1 when there is none): a greedy [class]*.
RunEnd(s, from, class) ==
    CHOOSE e \in (from - 1)..Len(s) :
        /\ \A x \in from..e : s[x] \in class
        /\ e = Len(s) \/ s[e + 1] \notin class

ConfidenceWord == <<"c", "o", "n", "f", "i", "d", "e", "n", "c", "e">>
DeNovoWord == <<"d", "e", " ", "n", "o", "v", "o">>
BulletMarker == <<"-", " ">>

\* The match of confidence[:\s]*([0-9.]+) that starts at index i, if any:
\* the classes of the two runs are disjoint, so the greedy runs are the
\* only way to match.
ConfidenceMatchAt(s, i) ==
    IF ~str_startswith(SubSeq(s, i, Len(s)), ConfidenceWord)
    THEN [matched |-> FALSE, group |-> <<>>]
    ELSE LET a == RunEnd(s, i + Len(ConfidenceWord), {":"} \cup Whitespace) + 1
             b == RunEnd(s, a, Digits \cup {"."})
         IN  [matched |-> b >= a, group |-> SubSeq(s, a, b)]

\* Variant: the pattern is [0-9.]+ alone, without the word before it.
re_search_any_number(s) ==
    LET starts == {i \in 1..Len(s) : s[i] \in Digits \cup {"."}}
    IN  IF starts = {} THEN [matched |-> FALSE, group |-> <<>>]
        ELSE LET a == CHOOSE i \in starts : \A j \in starts : i <= j
             IN  [matched |-> TRUE, group |-> SubSeq(s, a, RunEnd(s, a, Digits \cup {"."}))]

\* re.search(r'confidence[:\s]*([0-9.]+)', s): the leftmost match.
re_search_confidence(s) ==
    LET starts == {i \in 1..Len(s) : ConfidenceMatchAt(s, i).matched}
    IN  IF starts = {} THEN [matched |-> FALSE, group |-> <<>>]
        ELSE ConfidenceMatchAt(s, CHOOSE i \in starts : \A j \in starts : i <= j)

\* A float read from decimal digits is kept exactly: digits / 10^places.
Decimal(digits, places) == [digits |-> digits, places |-> places]

RECURSIVE Pow10(_)
Pow10(n) == IF n = 0 THEN 1 ELSE 10 * Pow10(n - 1)

DecimalEquals(x, y) == x.digits * Pow10(y.places) = y.digits * Pow10(x.places)

\* float(token) for a token of digits and dots: at most one dot and at
\* least one digit, else ValueError.
float_of_token(token) ==
    LET dots == {i \in 1..Len(token) : token[i] = "."}
        digits == SelectSeq(token, LAMBDA c : c \in Digits)
    IN  IF Cardinality(dots) > 1 \/ Len(digits) = 0
        THEN Raise("could not convert string to float")
        ELSE Return(Decimal(python_int(digits),
                            IF dots = {} THEN 0
                            ELSE Len(token) - (CHOOSE i \in dots : TRUE)))

\* Lines 46-50.
recommendation_of(response) ==
    IF str_contains(str_lower(response), DeNovoWord)
    THEN "De Novo Design"
    ELSE "Modify Existing Nanobodies"

\* Line 42 and line 58.
reasoning_of(response) ==
    LET lines == str_split(str_strip(response, Whitespace), "\n")
        bullets == SelectSeq(lines,
                       LAMBDA line : str_startswith(str_strip(line, Whitespace), BulletMarker))
    IN  [i \in 1..Len(bullets) |-> str_strip(bullets[i], {"-", " "})]

\* Lines 53-55.
confidence_of(response) ==
    LET conf_match == re_search_confidence(str_lower(response))
    IN  IF conf_match.matched THEN float_of_token(conf_match.group)
        ELSE Return(Decimal(7, 1))

\* _parse_response: what it returns or raises, with the recommendation it
\* had computed (line 48 or 50) before the confidence was converted.
parse_response_text(response) ==
    [ret |-> IF confidence_of(response).raised THEN confidence_of(response)
             ELSE Return([analysis |-> response,
                          recommendation |-> recommendation_of(response),
                          confidence |-> confidence_of(response).value,
                          reasoning |-> reasoning_of(response)]),
     recommendation |-> recommendation_of(response)]

\* Variant: the prompt holds the brief only.
get_analysis_prompt_brief_only(role, state) ==
    [role |-> role, text |-> state.text, previous_inputs |-> <<>>]

\* _get_analysis_prompt of the three opinion agents: the brief and the
\* analysis of every opinion collected so far, in order.
get_analysis_prompt(role, state) ==
    [role |-> role, text |-> state.text,
     previous_inputs |-> [i \in 1..Len(state.agent_inputs) |->
                            [agent |-> state.agent_inputs[i].agent,
                             analysis |-> state.agent_inputs[i].analysis]]]

\* Variant: a failed call is replaced by a default opinion.
provide_input_fallback(role, state, outcome) ==
    IF outcome.ok
    THEN Return(AgentInput(role, outcome.content, "Modify Existing Nanobodies", 70, <<>>))
    ELSE Return(AgentInput(role, "", "Modify Existing Nanobodies", 70, <<>>))

provide_input(role, state, outcome) ==
    LET prompt == get_analysis_prompt(role, state)
        response == chat_completion(prompt, outcome)
    IN  IF response.raised THEN response
        ELSE LET p == parse_response(response.value)
             IN  IF p.raised THEN p
                 ELSE Return(AgentInput(role, p.value.analysis, p.value.recommendation,
                                        p.value.confidence, p.value.reasoning))

\* --------------------------------------------------- agents/pi_agent.py
FallbackFacts ==
    [target |-> "Extracted target", timeline |-> "Extracted timeline",
     budget |-> "Extracted budget", goal |-> "Extracted goal", confidence |-> 80]

FallbackStrategy ==
    [title |-> "Modify Existing Nanobodies",
     rationale |-> <<[icon |-> "Clock", label |-> "Team Analysis", description |-> "Based on team discussion"],
                     [icon |-> "TrendingUp", label |-> "Consensus", description |-> "Team reached agreement"],
                     [icon |-> "DollarSign", label |-> "Feasible", description |-> "Within project constraints"]>>,
     candidates |-> <<"Ty1", "H11-D4", "Nb21", "VHH-72">>,
     confidence |-> 70, alternatives |-> <<>>]

extraction_prompt(text) == [op |-> "extract_key_data", text |-> text]

\* The await of chat_completion is outside the try: its failure propagates.
extract_key_data(text, outcome) ==
    LET response == chat_completion(extraction_prompt(text), outcome)
    IN  IF response.raised THEN response
        ELSE LET decoded == json_loads(response.value)
             IN  IF decoded.raised THEN Return(FallbackFacts) ELSE decoded

synthesis_prompt(state) ==
    [op |-> "synthesize_strategy", text |-> state.text,
     team_summary |-> [i \in 1..Len(state.agent_inputs) |->
                         [agent |-> state.agent_inputs[i].agent,
                          confidence |-> state.agent_inputs[i].confidence,
                          recommendation |-> state.agent_inputs[i].recommendation,
                          analysis |-> state.agent_inputs[i].analysis]]]

\* Variant: the decode failure is not caught.
synthesize_strategy_propagates(state, outcome) ==
    LET response == chat_completion(synthesis_prompt(state), outcome)
    IN  IF response.raised THEN response ELSE json_loads(response.value)

synthesize_strategy(state, outcome) ==
    LET response == chat_completion(synthesis_prompt(state), outcome)
    IN  IF response.raised THEN response
        ELSE LET decoded == json_loads(response.value)
             IN  IF decoded.raised THEN Return(FallbackStrategy) ELSE decoded

\* ------------------------------------------------- agents/virtual_lab.py
\* A VirtualLab object: its event log, whether a progress callback was
\* given, and all_events, the list the streaming callback appends to
\* (upload.py:134-138).
VirtualLab(progress_callback) ==
    [events |-> <<>>, progress_callback |-> progress_callback, all_events |-> <<>>]

\* Variant: every event is recorded with progress 0.
emit_event_flat(self, event_type, step_name, progress, message, agent_role) ==
    LET event_dict == [event_type |-> event_type, timestamp |-> utcnow,
                       step_name |-> step_name, agent_role |-> agent_role,
                       progress |-> 0, message |-> message]
    IN  [self EXCEPT !.events = Append(@, event_dict),
                     !.all_events = IF self.progress_callback
                                    THEN Append(@, event_dict) ELSE @]

emit_event(self, event_type, step_name, progress, message, agent_role) ==
    LET event_dict == [event_type |-> event_type, timestamp |-> utcnow,
                       step_name |-> step_name, agent_role |-> agent_role,
                       progress |-> progress, message |-> message]
    IN  [self EXCEPT !.events = Append(@, event_dict),
                     !.all_events = IF self.progress_callback
                                    THEN Append(@, event_dict) ELSE @]

\* The outcome of running a phase: the object afterwards, what the call
\* returned or raised, and the Completion Client calls it made, in order.
Run(self, ret, calls) == [self |-> self, ret |-> ret, calls |-> calls]
Call(agent, prompt, outcome) == [agent |-> agent, prompt |-> prompt, outcome |-> outcome]

\* Variant: a failed extraction call is made a second time.
analyze_brief_try_retry(self, text, outcome) ==
    LET l == emit_event([self EXCEPT !.events = <<>>], STEP_START,
                        "Analyzing Project Brief", 0,
                        "Reading and interpreting your document...", PI)
        call == Call(PI, extraction_prompt(text), outcome)
    IN  Run(l, extract_key_data(text, outcome), <<call, call>>)

\* The try block of analyze_brief (lines 49-76).
analyze_brief_try(self, text, outcome) ==
    LET l0 == [self EXCEPT !.events = <<>>]
        l1 == emit_event(l0, STEP_START, "Analyzing Project Brief", 0,
                         "Reading and interpreting your document...", PI)
        extracted_data == extract_key_data(text, outcome)
        calls == <<Call(PI, extraction_prompt(text), outcome)>>
    IN  IF extracted_data.raised THEN Run(l1, extracted_data, calls)
        ELSE LET l2 == emit_event(l1, STEP_COMPLETE, "Brief Analysis Complete", 100,
                                  "Key information extracted - ready for your confirmation", PI)
             IN  Run(l2, Return([extracted_data |-> extracted_data.value,
                                 status |-> "awaiting_confirmation",
                                 checkpoint |-> "understanding_confirmation",
                                 progress_events |-> l2.events]), calls)

\* The except block of analyze_brief (lines 78-90).
analyze_brief_except(run) ==
    LET l == emit_event(run.self, ERROR, "Analysis Error", 0,
                        "Error during extraction: " \o run.ret.exc, None)
    IN  Run(l, Return([extracted_data |-> EmptyDict, status |-> "error",
                       error |-> run.ret.exc, progress_events |-> l.events]), run.calls)

\* Variant: no except block.
analyze_brief_uncaught(self, text, outcome) ==
    analyze_brief_try(self, text, outcome)

analyze_brief(self, text, outcome) ==
    LET run == analyze_brief_try(self, text, outcome)
    IN  IF run.ret.raised THEN analyze_brief_except(run) ELSE run

\* ---- _generate_workflow_options
\* A cost is the string of its characters.
workflow_steps ==
    << [id |-> "fetch_candidates", name |-> "Fetch Candidate Sequences",
        required |-> TRUE, selected |-> TRUE, estimated_time |-> "2 hours",
        estimated_cost |-> <<"$", "0">>],
       [id |-> "filter_candidates", name |-> "Filter Candidates",
        required |-> TRUE, selected |-> TRUE, estimated_time |-> "1 hour",
        estimated_cost |-> <<"$", "0">>],
       [id |-> "run_esm", name |-> "ESM Affinity Prediction",
        required |-> FALSE, selected |-> TRUE, estimated_time |-> "4 hours",
        estimated_cost |-> <<"$", "5", "0">>, rounds |-> 2],
       [id |-> "run_alphafold", name |-> "AlphaFold3 Structural Prediction",
        required |-> FALSE, selected |-> TRUE, estimated_time |-> "8 hours",
        estimated_cost |-> <<"$", "2", "0", "0">>],
       [id |-> "affinity_maturation", name |-> "In Silico Affinity Maturation",
        required |-> FALSE, selected |-> TRUE, estimated_time |-> "12 hours",
        estimated_cost |-> <<"$", "1", "0", "0">>],
       [id |-> "in_vitro_testing", name |-> "In Vitro Validation",
        required |-> FALSE, selected |-> FALSE, estimated_time |-> "2 weeks",
        estimated_cost |-> <<"$", "1", "5", ",", "0", "0", "0">>] >>

\* str.replace(ch, "")
Replace(s, ch) == SelectSeq(s, LAMBDA c : c # ch)

\* f"{n:,}": decimal digits with a comma before each group of three.
RECURSIVE format_thousands(_)
format_thousands(n) ==
    IF n < 1000
    THEN (IF n >= 100 THEN <<DigitChar(n \div 100)>> ELSE <<>>)
         \o (IF n >= 10 THEN <<DigitChar((n \div 10) % 10)>> ELSE <<>>)
         \o <<DigitChar(n % 10)>>
    ELSE format_thousands(n \div 1000)
         \o <<",", DigitChar((n \div 100) % 10), DigitChar((n \div 10) % 10), DigitChar(n % 10)>>

RECURSIVE sum_costs(_)
sum_costs(steps) ==
    IF Len(steps) = 0 THEN 0
    ELSE python_int(Replace(Replace(steps[1].estimated_cost, "$"), ","))
         + sum_costs(Tail(steps))

\* strategy.get and confirmed_data.get raise AttributeError on a value that
\* is not a dict.
generate_workflow_options(strategy, confirmed_data) ==
    IF ~IsDict(strategy) \/ ~IsDict(confirmed_data)
    THEN Raise("'list' object has no attribute 'get'")
    ELSE LET selected_steps == SelectSeq(workflow_steps, LAMBDA s : s.selected)
             total_cost == sum_costs(selected_steps)
         IN  Return([steps |-> workflow_steps,
                     total_estimated_cost |-> <<"$">> \o format_thousands(total_cost),
                     total_estimated_time |-> "~1 week (computational only)",
                     budget_available |-> Get(confirmed_data, "budget", "Unknown"),
                     constraints |-> [timeline |-> Get(confirmed_data, "timeline", "Unknown"),
                                      budget |-> Get(confirmed_data, "budget", "Unknown")]])

\* ---- generate_full_analysis
\* outs[k] is the Completion Client's outcome for the k-th call of the run
\* (a run consumes only the outcomes of the calls it reaches).

\* The try block of generate_full_analysis (lines 97-232), last step
\* first.  Each step takes the object, the state and the calls made so far.

\* Lines 201-232: the workflow is built and the result returned.
workflow_construction(self, calls, confirmed_data, strategy, immunologist_input, ml_input, comp_bio_input) ==
    LET l1 == emit_event(self, STEP_START, "Workflow Construction", 92,
                         "Building execution workflow with selectable steps...", PI)
        workflow_options == generate_workflow_options(strategy, confirmed_data)
        l2 == emit_event(l1, STEP_COMPLETE, "Analysis Complete", 100,
                         "Full analysis complete - ready for your review and selection", PI)
    IN  IF workflow_options.raised THEN Run(l1, workflow_options, calls)
        ELSE Run(l2, Return([extracted_data |-> confirmed_data,
                             strategy |-> strategy,
                             workflow_options |-> workflow_options.value,
                             agent_insights |-> [immunologist |-> immunologist_input,
                                                 ml_specialist |-> ml_input,
                                                 comp_biologist |-> comp_bio_input],
                             status |-> "awaiting_workflow_selection",
                             checkpoint |-> "workflow_selection",
                             progress_events |-> l2.events]), calls)

\* Lines 182-199: the PI synthesizes the strategy.
strategy_synthesis(self, state, calls, confirmed_data, outs, immunologist_input, ml_input, comp_bio_input) ==
    LET l1 == emit_event(self, AGENT_THINKING, "Strategy Synthesis", 75,
                         "Synthesizing team insights into comprehensive strategy...", PI)
        strategy == synthesize_strategy(state, outs[4])
        calls4 == Append(calls, Call(PI, synthesis_prompt(state), outs[4]))
    IN  IF strategy.raised THEN Run(l1, strategy, calls4)
        ELSE workflow_construction(
                 emit_event(l1, STEP_COMPLETE, "Strategy Synthesis Complete", 90,
                            "Strategy synthesized - generating workflow options...", PI),
                 calls4, confirmed_data, strategy.value,
                 immunologist_input, ml_input, comp_bio_input)

\* Lines 162-180: the computational biologist.
comp_bio_analysis(self, state, calls, confirmed_data, outs, immunologist_input, ml_input) ==
    LET l1 == emit_event(self, AGENT_THINKING, "Computational Biology Analysis", 55,
                         "Performing structural analysis, sequence optimization, and modeling...",
                         COMP_BIOLOGIST)
        comp_bio_input == provide_input(COMP_BIOLOGIST, state, outs[3])
        calls3 == Append(calls, Call(COMP_BIOLOGIST,
                                     get_analysis_prompt(COMP_BIOLOGIST, state), outs[3]))
    IN  IF comp_bio_input.raised THEN Run(l1, comp_bio_input, calls3)
        ELSE strategy_synthesis(
                 emit_event(l1, STEP_COMPLETE, "Computational Biology Complete", 70,
                            "Structural insights and sequence recommendations ready",
                            COMP_BIOLOGIST),
                 [state EXCEPT !.agent_inputs = Append(@, comp_bio_input.value)],
                 calls3, confirmed_data, outs,
                 immunologist_input, ml_input, comp_bio_input.value)

\* Lines 142-160: the ML specialist.
ml_analysis(self, state, calls, confirmed_data, outs, immunologist_input) ==
    LET l1 == emit_event(self, AGENT_THINKING, "Machine Learning Analysis", 35,
                         "Evaluating ML approaches, model selection, and data requirements...",
                         ML_SPECIALIST)
        ml_input == provide_input(ML_SPECIALIST, state, outs[2])
        calls2 == Append(calls, Call(ML_SPECIALIST,
                                     get_analysis_prompt(ML_SPECIALIST, state), outs[2]))
    IN  IF ml_input.raised THEN Run(l1, ml_input, calls2)
        ELSE comp_bio_analysis(
                 emit_event(l1, STEP_COMPLETE, "ML Analysis Complete", 50,
                            "ML strategy and computational approach defined", ML_SPECIALIST),
                 [state EXCEPT !.agent_inputs = Append(@, ml_input.value)],
                 calls2, confirmed_data, outs, immunologist_input, ml_input.value)

\* Lines 122-140: the immunologist.
immunological_analysis(self, state, calls, confirmed_data, outs) ==
    LET l1 == emit_event(self, AGENT_THINKING, "Immunological Analysis", 15,
                         "Analyzing antigen properties, epitope mapping, and binding requirements...",
                         IMMUNOLOGIST)
        immunologist_input == provide_input(IMMUNOLOGIST, state, outs[1])
        calls1 == Append(calls, Call(IMMUNOLOGIST,
                                     get_analysis_prompt(IMMUNOLOGIST, state), outs[1]))
    IN  IF immunologist_input.raised THEN Run(l1, immunologist_input, calls1)
        ELSE ml_analysis(
                 emit_event(l1, STEP_COMPLETE, "Immunological Analysis Complete", 30,
                            "Immunological assessment complete - recommendations documented",
                            IMMUNOLOGIST),
                 [state EXCEPT !.agent_inputs = Append(@, immunologist_input.value)],
                 calls1, confirmed_data, outs, immunologist_input.value)

\* Lines 98-120: the log is reset, the state created, the confirmed facts
\* stored in it.
generate_full_analysis_try(self, text, confirmed_data, outs, accepts_extra) ==
    LET l1 == emit_event([self EXCEPT !.events = <<>>], STEP_START,
                         "Initializing Virtual Lab", 0,
                         "Starting multi-agent analysis with confirmed parameters...", PI)
        meta == set_metadata(ProjectState(text), confirmed_data, accepts_extra)
    IN  IF meta.raised THEN Run(l1, meta, <<>>)
        ELSE immunological_analysis(
                 emit_event(l1, STEP_COMPLETE, "Virtual Lab Initialized", 5,
                            "Team assembled and ready", PI),
                 meta.value, <<>>, confirmed_data, outs)

\* Variant: the except block returns what the run had collected.
generate_full_analysis_except_keeps(run, confirmed_data) ==
    IF ~run.ret.raised THEN run
    ELSE Run(run.self, Return([extracted_data |-> confirmed_data, strategy |-> EmptyDict,
                               agent_insights |-> EmptyDict,
                               status |-> "error", error |-> run.ret.exc,
                               progress_events |-> run.self.events]), run.calls)

\* The except block of generate_full_analysis (lines 234-247), for a run of
\* the try block; a run that raised nothing is left as it is.
generate_full_analysis_except(run, confirmed_data) ==
    IF ~run.ret.raised THEN run
    ELSE LET l == emit_event(run.self, ERROR, "Analysis Error", 0,
                             "Error during analysis: " \o run.ret.exc, None)
         IN  Run(l, Return([extracted_data |-> confirmed_data, strategy |-> EmptyDict,
                            status |-> "error", error |-> run.ret.exc,
                            progress_events |-> l.events]), run.calls)

generate_full_analysis(self, text, confirmed_data, outs, accepts_extra) ==
    generate_full_analysis_except(
        generate_full_analysis_try(self, text, confirmed_data, outs, accepts_extra),
        confirmed_data)

\* ---- process_project
\* outs[1] is the outcome of the extraction call, outs[2..5] those of the
\* calls of Phase 2.

\* The except block of process_project (lines 353-360).
process_project_except(run) ==
    Run(run.self, Return([extracted_data |-> EmptyDict, strategy |-> EmptyDict,
                          status |-> "error", error |-> run.ret.exc,
                          progress_events |-> run.self.events]), run.calls)

\* Variant: Phase 2 is run whatever the status of Phase 1.
process_project_no_status_check(self, text, outs, accepts_extra) ==
    LET extract_result == analyze_brief(self, text, outs[1])
        full_result == generate_full_analysis(extract_result.self, text,
                           extract_result.ret.value.extracted_data, Tail(outs), accepts_extra)
    IN  Run(full_result.self, full_result.ret, extract_result.calls \o full_result.calls)

process_project(self, text, outs, accepts_extra) ==
    LET extract_result == analyze_brief(self, text, outs[1])
    IN  IF extract_result.ret.raised THEN process_project_except(extract_result)
        ELSE IF extract_result.ret.value.status = "error" THEN extract_result
        ELSE LET full_result == generate_full_analysis(extract_result.self, text,
                                    extract_result.ret.value.extracted_data,
                                    Tail(outs), accepts_extra)
                 calls == extract_result.calls \o full_result.calls
             IN  IF full_result.ret.raised
                 THEN process_project_except(Run(full_result.self, full_result.ret, calls))
                 ELSE Run(full_result.self, full_result.ret, calls)

\* ------------------------------------------------------------ inputs
\* A brief is its text with the counts the upload validation reads:
\* len(text.strip()) = non_ws + inner_ws.
LongBrief ==
    [content |-> "Develop a nanobody against HER2 within 2 months on a budget of $30,000.",
     non_ws |-> 60, inner_ws |-> 13, outer_ws |-> 1]
ShortBrief ==
    [content |-> "HER2 binder", non_ws |-> 10, inner_ws |-> 1, outer_ws |-> 0]
\* Thirty letters in words of one or two, with 25 blanks between them.
SpacedBrief ==
    [content |-> "a b c d e f g h i j k l m n o p q r s t u v wx yz ab cd",
     non_ws |-> 30, inner_ws |-> 25, outer_ws |-> 0]
BriefTexts == {LongBrief, ShortBrief, SpacedBrief}

StripLen(text) == text.non_ws + text.inner_ws

ModelFacts == json_loads(FactsJsonText).value
EditedFacts == [ModelFacts EXCEPT !.budget = "$45,000"]
ConfirmedFacts == {ModelFacts, EditedFacts}

\* --------------------------------------------- specification of the phases
\* LabSpec applies the two phase operations of a fresh VirtualLab to every
\* input: lab holds the call, then the call with the run it produced.
NoLab == [op |-> "none", pc |-> "none"]

LabInputs ==
    {[op |-> "analyze_brief", pc |-> "ready", text |-> t, confirmed_data |-> EmptyDict,
      outs |-> <<o>>, accepts_extra |-> TRUE, progress_callback |-> cb, run |-> None] :
        t \in BriefTexts, o \in ExtractionOutcomes, cb \in BOOLEAN}
    \cup
    {[op |-> "generate_full_analysis", pc |-> "ready", text |-> t, confirmed_data |-> cd,
      outs |-> <<o1, o2, o3, o4>>, accepts_extra |-> ax, progress_callback |-> cb,
      run |-> None] :
        t \in {LongBrief}, cd \in ConfirmedFacts, o1 \in OpinionOutcomes,
        o2 \in OpinionOutcomes, o3 \in OpinionOutcomes, o4 \in SynthesisOutcomes,
        ax \in BOOLEAN, cb \in BOOLEAN}

IdleStream ==
    [pc |-> "idle", project_id |-> 0, confirmed_data |-> EmptyDict, user_modified |-> FALSE,
     task |-> "none", task_result |-> None, all_events |-> <<>>, last_event_count |-> 0,
     pending |-> <<>>, sent |-> <<>>]

NoResponse == [handler |-> None, project_id |-> 0, status_code |-> 0,
               detail |-> None, body |-> None]

LabInit ==
    /\ project_sessions = EmptyDict
    /\ streams = [s \in 1..MaxStreams |-> IdleStream]
    /\ http = NoResponse
    /\ requests = 0
    /\ lab \in LabInputs

LabAnalyzeBrief ==
    /\ lab.pc = "ready"
    /\ lab.op = "analyze_brief"
    /\ lab' = [lab EXCEPT !.pc = "done",
                          !.run = analyze_brief(VirtualLab(lab.progress_callback),
                                                lab.text, lab.outs[1])]
    /\ UNCHANGED <<project_sessions, streams, http, requests>>

LabGenerateFullAnalysis ==
    /\ lab.pc = "ready"
    /\ lab.op = "generate_full_analysis"
    /\ lab' = [lab EXCEPT !.pc = "done",
                          !.run = generate_full_analysis(VirtualLab(lab.progress_callback),
                                                         lab.text, lab.confirmed_data,
                                                         lab.outs, lab.accepts_extra)]
    /\ UNCHANGED <<project_sessions, streams, http, requests>>

LabNext == LabAnalyzeBrief \/ LabGenerateFullAnalysis

LabSpec == LabInit /\ [][LabNext]_vars

\* ------------------------------------- the phases, statement by statement
\* StepSpec runs one invocation of analyze_brief or generate_full_analysis a
\* statement at a time.  lab holds the invocation: its arguments, the
\* orchestrator (self), the position in the try block (at), the locals
\* assigned so far, the
\* Completion Client calls made, the exception being handled (exc) and what
\* the invocation returned or raised (ret).  pc is "try", "except", "done"
\* (returned) or "raised" (an exception left the method).
EmitStatement(event_type, step_name, progress, message, agent_role) ==
    [kind |-> "emit", event_type |-> event_type, step_name |-> step_name,
     progress |-> progress, message |-> message, agent_role |-> agent_role]

\* The try block of analyze_brief (lines 50-76).
analyze_brief_statements ==
    << [kind |-> "reset"],
       EmitStatement(STEP_START, "Analyzing Project Brief", 0,
                     "Reading and interpreting your document...", PI),
       [kind |-> "extract"],
       EmitStatement(STEP_COMPLETE, "Brief Analysis Complete", 100,
                     "Key information extracted - ready for your confirmation", PI),
       [kind |-> "return"] >>

\* Variant: the StepComplete event of the immunologist is emitted before
\* the call.
full_analysis_statements_complete_first ==
    << [kind |-> "reset"],
       EmitStatement(STEP_START, "Initializing Virtual Lab", 0,
                     "Starting multi-agent analysis with confirmed parameters...", PI),
       [kind |-> "metadata"],
       EmitStatement(STEP_COMPLETE, "Virtual Lab Initialized", 5,
                     "Team assembled and ready", PI),
       EmitStatement(AGENT_THINKING, "Immunological Analysis", 15,
                     "Analyzing antigen properties, epitope mapping, and binding requirements...",
                     IMMUNOLOGIST),
       EmitStatement(STEP_COMPLETE, "Immunological Analysis Complete", 30,
                     "Immunological assessment complete - recommendations documented",
                     IMMUNOLOGIST),
       [kind |-> "opinion", role |-> IMMUNOLOGIST, local |-> "immunologist_input"],
       EmitStatement(AGENT_THINKING, "Machine Learning Analysis", 35,
                     "Evaluating ML approaches, model selection, and data requirements...",
                     ML_SPECIALIST),
       [kind |-> "opinion", role |-> ML_SPECIALIST, local |-> "ml_input"],
       EmitStatement(STEP_COMPLETE, "ML Analysis Complete", 50,
                     "ML strategy and computational approach defined", ML_SPECIALIST),
       EmitStatement(AGENT_THINKING, "Computational Biology Analysis", 55,
                     "Performing structural analysis, sequence optimization, and modeling...",
                     COMP_BIOLOGIST),
       [kind |-> "opinion", role |-> COMP_BIOLOGIST, local |-> "comp_bio_input"],
       EmitStatement(STEP_COMPLETE, "Computational Biology Complete", 70,
                     "Structural insights and sequence recommendations ready",
                     COMP_BIOLOGIST),
       EmitStatement(AGENT_THINKING, "Strategy Synthesis", 75,
                     "Synthesizing team insights into comprehensive strategy...", PI),
       [kind |-> "synthesis"],
       EmitStatement(STEP_COMPLETE, "Strategy Synthesis Complete", 90,
                     "Strategy synthesized - generating workflow options...", PI),
       EmitStatement(STEP_START, "Workflow Construction", 92,
                     "Building execution workflow with selectable steps...", PI),
       [kind |-> "workflow"],
       EmitStatement(STEP_COMPLETE, "Analysis Complete", 100,
                     "Full analysis complete - ready for your review and selection", PI),
       [kind |-> "return"] >>

\* The try block of generate_full_analysis (lines 98-232).
full_analysis_statements ==
    << [kind |-> "reset"],
       EmitStatement(STEP_START, "Initializing Virtual Lab", 0,
                     "Starting multi-agent analysis with confirmed parameters...", PI),
       [kind |-> "metadata"],
       EmitStatement(STEP_COMPLETE, "Virtual Lab Initialized", 5,
                     "Team assembled and ready", PI),
       EmitStatement(AGENT_THINKING, "Immunological Analysis", 15,
                     "Analyzing antigen properties, epitope mapping, and binding requirements...",
                     IMMUNOLOGIST),
       [kind |-> "opinion", role |-> IMMUNOLOGIST, local |-> "immunologist_input"],
       EmitStatement(STEP_COMPLETE, "Immunological Analysis Complete", 30,
                     "Immunological assessment complete - recommendations documented",
                     IMMUNOLOGIST),
       EmitStatement(AGENT_THINKING, "Machine Learning Analysis", 35,
                     "Evaluating ML approaches, model selection, and data requirements...",
                     ML_SPECIALIST),
       [kind |-> "opinion", role |-> ML_SPECIALIST, local |-> "ml_input"],
       EmitStatement(STEP_COMPLETE, "ML Analysis Complete", 50,
                     "ML strategy and computational approach defined", ML_SPECIALIST),
       EmitStatement(AGENT_THINKING, "Computational Biology Analysis", 55,
                     "Performing structural analysis, sequence optimization, and modeling...",
                     COMP_BIOLOGIST),
       [kind |-> "opinion", role |-> COMP_BIOLOGIST, local |-> "comp_bio_input"],
       EmitStatement(STEP_COMPLETE, "Computational Biology Complete", 70,
                     "Structural insights and sequence recommendations ready",
                     COMP_BIOLOGIST),
       EmitStatement(AGENT_THINKING, "Strategy Synthesis", 75,
                     "Synthesizing team insights into comprehensive strategy...", PI),
       [kind |-> "synthesis"],
       EmitStatement(STEP_COMPLETE, "Strategy Synthesis Complete", 90,
                     "Strategy synthesized - generating workflow options...", PI),
       EmitStatement(STEP_START, "Workflow Construction", 92,
                     "Building execution workflow with selectable steps...", PI),
       [kind |-> "workflow"],
       EmitStatement(STEP_COMPLETE, "Analysis Complete", 100,
                     "Full analysis complete - ready for your review and selection", PI),
       [kind |-> "return"] >>

Statements(op) ==
    IF op = "analyze_brief" THEN analyze_brief_statements ELSE full_analysis_statements

\* The statement the invocation is at.
Statement == Statements(lab.op)[lab.at]

AtStatement(kind) ==
    /\ lab.op \in {"analyze_brief", "generate_full_analysis"}
    /\ lab.pc = "try"
    /\ Statement.kind = kind

\* progress_callback(event_dict) (line 38) raises when this is one of the
\* invocations at which the callback given to the orchestrator fails;
\* self.all_events holds the events the callback was invoked with.
CallbackError == "progress callback failed"
callback_raises(l, self) ==
    self.progress_callback /\ Len(self.all_events) \in l.callback_fails

\* An exception raised in the try block is handed to the except block.
raise_in_try(l, exc) == [l EXCEPT !.pc = "except", !.exc = exc]

\* Lines 50 and 98-101: the log is reset (and the working state created).
StepReset ==
    /\ AtStatement("reset")
    /\ lab' = [lab EXCEPT !.at = @ + 1,
                          !.self.events = <<>>,
                          !.state = IF lab.op = "generate_full_analysis"
                                    THEN ProjectState(lab.text) ELSE None]
    /\ UNCHANGED <<project_sessions, streams, http, requests>>

\* Variant: the callback is invoked before the append, so an event whose
\* callback raised is not in the log.
emitted_callback_first(l, self) ==
    IF callback_raises(l, self)
    THEN raise_in_try([l EXCEPT !.self.all_events = self.all_events], CallbackError)
    ELSE [l EXCEPT !.at = @ + 1, !.self = self]

\* emit_event in the try block: the event is appended, then the callback
\* is invoked.
emitted(l, self) ==
    IF callback_raises(l, self)
    THEN raise_in_try([l EXCEPT !.self = self], CallbackError)
    ELSE [l EXCEPT !.at = @ + 1, !.self = self]

StepEmit ==
    /\ AtStatement("emit")
    /\ lab' = emitted(lab, emit_event(lab.self, Statement.event_type, Statement.step_name,
                                      Statement.progress, Statement.message,
                                      Statement.agent_role))
    /\ UNCHANGED <<project_sessions, streams, http, requests>>

\* Line 112.
metadata_set(l, meta) ==
    IF meta.raised THEN raise_in_try(l, meta.exc)
    ELSE [l EXCEPT !.at = @ + 1, !.state = meta.value]

StepSetMetadata ==
    /\ AtStatement("metadata")
    /\ lab' = metadata_set(lab, set_metadata(lab.state, lab.confirmed_data,
                                             lab.accepts_extra))
    /\ UNCHANGED <<project_sessions, streams, http, requests>>

\* A statement that assigns the value of a call to a local.
assigned(l, local, result) ==
    IF result.raised THEN raise_in_try(l, result.exc)
    ELSE [l EXCEPT !.at = @ + 1, !.locals = Put(@, local, result.value)]

called(l, call) == [l EXCEPT !.calls = Append(@, call)]

\* Line 61.
StepExtract ==
    /\ AtStatement("extract")
    /\ lab' = assigned(called(lab, Call(PI, extraction_prompt(lab.text), lab.outs[1])),
                       "extracted_data", extract_key_data(lab.text, lab.outs[1]))
    /\ UNCHANGED <<project_sessions, streams, http, requests>>

\* Lines 131-132, 151-152, 171-172: the opinion is asked for and appended
\* to state.agent_inputs.
opinion_recorded(l, local, result) ==
    IF result.raised THEN raise_in_try(l, result.exc)
    ELSE [l EXCEPT !.at = @ + 1, !.locals = Put(@, local, result.value),
                   !.state.agent_inputs = Append(@, result.value)]

StepOpinion ==
    /\ AtStatement("opinion")
    /\ lab' = opinion_recorded(
                  called(lab, Call(Statement.role, get_analysis_prompt(Statement.role, lab.state),
                                   lab.outs[Len(lab.calls) + 1])),
                  Statement.local,
                  provide_input(Statement.role, lab.state, lab.outs[Len(lab.calls) + 1]))
    /\ UNCHANGED <<project_sessions, streams, http, requests>>

\* Line 191.
StepSynthesis ==
    /\ AtStatement("synthesis")
    /\ lab' = assigned(called(lab, Call(PI, synthesis_prompt(lab.state),
                                        lab.outs[Len(lab.calls) + 1])),
                       "strategy",
                       synthesize_strategy(lab.state, lab.outs[Len(lab.calls) + 1]))
    /\ UNCHANGED <<project_sessions, streams, http, requests>>

\* Line 210.
StepWorkflow ==
    /\ AtStatement("workflow")
    /\ lab' = assigned(lab, "workflow_options",
                       generate_workflow_options(lab.locals.strategy, lab.confirmed_data))
    /\ UNCHANGED <<project_sessions, streams, http, requests>>

\* Lines 71-76 and 220-232.
returned_value(l) ==
    IF l.op = "analyze_brief"
    THEN [extracted_data |-> l.locals.extracted_data,
          status |-> "awaiting_confirmation",
          checkpoint |-> "understanding_confirmation",
          progress_events |-> l.self.events]
    ELSE [extracted_data |-> l.confirmed_data,
          strategy |-> l.locals.strategy,
          workflow_options |-> l.locals.workflow_options,
          agent_insights |-> [immunologist |-> l.locals.immunologist_input,
                              ml_specialist |-> l.locals.ml_input,
                              comp_biologist |-> l.locals.comp_bio_input],
          status |-> "awaiting_workflow_selection",
          checkpoint |-> "workflow_selection",
          progress_events |-> l.self.events]

StepReturn ==
    /\ AtStatement("return")
    /\ lab' = [lab EXCEPT !.pc = "done", !.ret = Return(returned_value(lab))]
    /\ UNCHANGED <<project_sessions, streams, http, requests>>

\* The except block (lines 78-90, 234-247): the Error event is emitted and
\* the error result returned, unless the callback raises again: nothing
\* catches that exception and it leaves the method.
except_done(l, run) ==
    IF callback_raises(l, run.self)
    THEN [l EXCEPT !.pc = "raised", !.self = run.self, !.ret = Raise(CallbackError)]
    ELSE [l EXCEPT !.pc = "done", !.self = run.self, !.ret = run.ret]

StepExcept ==
    /\ lab.op \in {"analyze_brief", "generate_full_analysis"}
    /\ lab.pc = "except"
    /\ lab' = except_done(lab,
                  IF lab.op = "analyze_brief"
                  THEN analyze_brief_except(Run(lab.self, Raise(lab.exc), lab.calls))
                  ELSE generate_full_analysis_except(Run(lab.self, Raise(lab.exc), lab.calls),
                                                     lab.confirmed_data))
    /\ UNCHANGED <<project_sessions, streams, http, requests>>

StepNext ==
    \/ StepReset
    \/ StepEmit
    \/ StepSetMetadata
    \/ StepExtract
    \/ StepOpinion
    \/ StepSynthesis
    \/ StepWorkflow
    \/ StepReturn
    \/ StepExcept

\* An invocation on an orchestrator built with no callback or with a
\* callback, fresh or already used for Phase 1 (as process_project uses it).
Invocation(op, text, confirmed_data, outs, accepts_extra, self, callback_fails) ==
    [op |-> op, pc |-> "try", at |-> 1, text |-> text, confirmed_data |-> confirmed_data,
     outs |-> outs, accepts_extra |-> accepts_extra, callback_fails |-> callback_fails,
     self |-> self, received_before |-> Len(self.all_events),
     state |-> None, locals |-> EmptyDict, calls |-> <<>>, exc |-> None, ret |-> None]

Orchestrators ==
    {VirtualLab(cb) : cb \in BOOLEAN}
    \cup {analyze_brief(VirtualLab(cb), LongBrief, TextResponse(FactsJsonText)).self :
              cb \in BOOLEAN}

Invocations(failures) ==
    {Invocation("analyze_brief", LongBrief, EmptyDict, <<o>>, TRUE, self, fails) :
        o \in ExtractionOutcomes, self \in Orchestrators, fails \in failures}
    \cup
    {Invocation("generate_full_analysis", LongBrief, ModelFacts, <<o1, o2, o3, o4>>, ax,
                self, fails) :
        o1 \in OpinionOutcomes, o2 \in OpinionOutcomes, o3 \in OpinionOutcomes,
        o4 \in SynthesisOutcomes, ax \in BOOLEAN, self \in Orchestrators,
        fails \in failures}

\* The callbacks of the repository (None, and list.append at
\* upload.py:136-138) never raise.
StepInit ==
    /\ project_sessions = EmptyDict
    /\ streams = [s \in 1..MaxStreams |-> IdleStream]
    /\ http = NoResponse
    /\ requests = 0
    /\ lab \in Invocations({{}})

StepSpec == StepInit /\ [][StepNext]_vars

\* CallbackSpec: the orchestrator is given a callback that can raise: never,
\* at its third invocation only, or at every invocation.
CallbackFailures == {{}, {3}, 1..20}

CallbackInit ==
    /\ project_sessions = EmptyDict
    /\ streams = [s \in 1..MaxStreams |-> IdleStream]
    /\ http = NoResponse
    /\ requests = 0
    /\ lab \in Invocations(CallbackFailures)

CallbackSpec == CallbackInit /\ [][StepNext]_vars

\* --------------------------------- specification of the one-shot entry point
\* LegacySpec gives the same text and the same Completion Client outcomes to
\* two orchestrators built alike: one runs process_project (legacy), the
\* caller of the other runs analyze_brief and, unless its status is error,
\* generate_full_analysis with the facts it returned (phase_1, phase_2).
LegacyInputs ==
    {[op |-> "process_project", pc |-> "ready", text |-> LongBrief,
      outs |-> <<o0, o1, o2, o3, o4>>, accepts_extra |-> ax, progress_callback |-> cb,
      ran |-> {}, legacy |-> None, phase_1 |-> None, phase_2 |-> None] :
        o0 \in ExtractionOutcomes, o1 \in OpinionOutcomes, o2 \in OpinionOutcomes,
        o3 \in OpinionOutcomes, o4 \in SynthesisOutcomes,
        ax \in BOOLEAN, cb \in BOOLEAN}

LegacyInit ==
    /\ project_sessions = EmptyDict
    /\ streams = [s \in 1..MaxStreams |-> IdleStream]
    /\ http = NoResponse
    /\ requests = 0
    /\ lab \in LegacyInputs

ProcessProject ==
    /\ lab.op = "process_project"
    /\ "legacy" \notin lab.ran
    /\ lab' = [lab EXCEPT !.ran = @ \cup {"legacy"},
                          !.legacy = process_project(VirtualLab(lab.progress_callback),
                                                     lab.text, lab.outs, lab.accepts_extra)]
    /\ UNCHANGED <<project_sessions, streams, http, requests>>

TwoPhaseAnalyzeBrief ==
    /\ lab.op = "process_project"
    /\ "phase_1" \notin lab.ran
    /\ lab' = [lab EXCEPT !.ran = @ \cup {"phase_1"},
                          !.phase_1 = analyze_brief(VirtualLab(lab.progress_callback),
                                                    lab.text, lab.outs[1])]
    /\ UNCHANGED <<project_sessions, streams, http, requests>>

TwoPhaseGenerateFullAnalysis ==
    /\ lab.op = "process_project"
    /\ "phase_1" \in lab.ran
    /\ "phase_2" \notin lab.ran
    /\ lab.phase_1.ret.value.status # "error"
    /\ lab' = [lab EXCEPT !.ran = @ \cup {"phase_2"},
                          !.phase_2 = generate_full_analysis(lab.phase_1.self, lab.text,
                                          lab.phase_1.ret.value.extracted_data,
                                          Tail(lab.outs), lab.accepts_extra)]
    /\ UNCHANGED <<project_sessions, streams, http, requests>>

LegacyNext == ProcessProject \/ TwoPhaseAnalyzeBrief \/ TwoPhaseGenerateFullAnalysis

LegacySpec == LegacyInit /\ [][LegacyNext]_vars

\* ------------------------------------- specification of the response parser
\* ParseSpec applies _parse_response to every text made of at most MaxTokens
\* of the pieces below: lab holds the call, then the call with its outcome.
ParseTokens ==
    {<<"c", "o", "n", "f", "i", "d", "e", "n", "c", "e", ":", " ">>,
     <<"C", "o", "n", "f", "i", "d", "e", "n", "c", "e", " ">>,
     <<"0", ".", "8", "5">>,
     <<"0", ".", "9">>,
     <<".">>,
     <<"d", "e", " ", "n", "o", "v", "o">>,
     <<"D", "e", " ", "N", "o", "v", "o">>,
     <<"\n">>,
     <<"-", " ">>,
     <<"-">>,
     <<"a", "b">>,
     <<" ">>}

RECURSIVE Flatten(_)
Flatten(pieces) ==
    IF Len(pieces) = 0 THEN <<>> ELSE Head(pieces) \o Flatten(Tail(pieces))

ParseTexts ==
    {Flatten(pieces) : pieces \in UNION {[1..n -> ParseTokens] : n \in 1..MaxTokens}}

ParseInit ==
    /\ project_sessions = EmptyDict
    /\ streams = [s \in 1..MaxStreams |-> IdleStream]
    /\ http = NoResponse
    /\ requests = 0
    /\ lab \in {[op |-> "_parse_response", pc |-> "ready", response |-> t,
                 ret |-> None, recommendation |-> None] : t \in ParseTexts}

ParseResponse ==
    /\ lab.pc = "ready"
    /\ lab.op = "_parse_response"
    /\ lab' = [lab EXCEPT !.pc = "done",
                          !.ret = parse_response_text(lab.response).ret,
                          !.recommendation = parse_response_text(lab.response).recommendation]
    /\ UNCHANGED <<project_sessions, streams, http, requests>>

ParseNext == ParseResponse

ParseSpec == ParseInit /\ [][ParseNext]_vars

\* ------------------------------------------------ app/routes/upload.py
\* An uploaded file: the parts of its name between dots ("" is << >>),
\* whether FileParser.parse_file can read it, and the text it holds.
Files ==
    {[filename |-> <<>>, readable |-> TRUE, text |-> LongBrief],
     [filename |-> <<"brief", "exe">>, readable |-> TRUE, text |-> LongBrief],
     [filename |-> <<"scan", "PDF">>, readable |-> FALSE, text |-> LongBrief],
     [filename |-> <<"brief", "txt">>, readable |-> TRUE, text |-> ShortBrief],
     [filename |-> <<"spaced", "txt">>, readable |-> TRUE, text |-> SpacedBrief],
     [filename |-> <<"brief", "txt">>, readable |-> TRUE, text |-> LongBrief]}

\* str.lower() on the extensions used.
Lower(w) == CASE w = "PDF" -> "pdf" [] w = "TXT" -> "txt" [] OTHER -> w

allowed_types == {"pdf", "docx", "txt"}

\* Completion Client outcomes drawn for the extraction an upload starts.
UploadOutcomes ==
    {ProviderFailure, TextResponse(FactsJsonText), TextResponse(ProseText)}

\* Completion Client outcomes drawn for the runs the handlers start: a
\* decoded strategy, the fallback strategy, and a failed opinion call.
Scenario(o1, o2, o3, o4, ax) == [outs |-> <<o1, o2, o3, o4>>, accepts_extra |-> ax]
Scenarios ==
    {Scenario(TextResponse(OpinionModifyText), TextResponse(OpinionDeNovoText),
              TextResponse(OpinionModifyText), TextResponse(StrategyJsonText), TRUE),
     Scenario(TextResponse(OpinionModifyText), TextResponse(OpinionDeNovoText),
              TextResponse(OpinionModifyText), TextResponse(ProseText), TRUE),
     Scenario(TextResponse(OpinionModifyText), ProviderFailure,
              TextResponse(OpinionModifyText), TextResponse(StrategyJsonText), TRUE)}

\* Request bodies.
ProjectIds == 1..MaxProjects
RequestIds == 1..(MaxProjects + 1)
ConfirmBodies ==
    {[confirmed_data |-> ModelFacts, user_modified |-> FALSE],
     [confirmed_data |-> EditedFacts, user_modified |-> TRUE]}
Selections ==
    {<<"fetch_candidates", "filter_candidates", "run_esm">>,
     <<"run_alphafold", "unknown_step", "fetch_candidates", "run_alphafold">>,
     <<>>}

\* Responses.
HTTPException(handler, project_id, status_code, detail) ==
    [handler |-> handler, project_id |-> project_id, status_code |-> status_code,
     detail |-> detail, body |-> None]
JSONResponse(handler, project_id, body) ==
    [handler |-> handler, project_id |-> project_id, status_code |-> 200,
     detail |-> None, body |-> body]
PhaseMismatch(phase, expected) ==
    "Project is in phase '" \o phase \o "', expected '" \o expected \o "'"

\* Variant: no phase guard.
phase_unchecked(session, expected) == TRUE

\* The phase guard of the three handlers (lines 118, 230, 291).
phase_is(session, expected) == session["phase"] = expected

\* uuid.uuid4(): an id no session has.
FreeIds == ProjectIds \ DOMAIN project_sessions
NewId == CHOOSE i \in FreeIds : \A j \in FreeIds : i <= j

\* ---- upload_file
\* Variant: the session is created as already confirmed.
new_session_in_checkpoint_2(project_id, file, text_content, result) ==
    [project_id |-> project_id,
     filename |-> file.filename,
     original_text |-> text_content,
     extracted_data |-> result.extracted_data,
     phase |-> "checkpoint_2",
     checkpoint_1_events |-> result.progress_events,
     created_at |-> utcnow,
     updated_at |-> utcnow]

\* Lines 76-85: the session an upload creates.
new_session(project_id, file, text_content, result) ==
    [project_id |-> project_id,
     filename |-> file.filename,
     original_text |-> text_content,
     extracted_data |-> result.extracted_data,
     phase |-> "checkpoint_1",
     checkpoint_1_events |-> result.progress_events,
     created_at |-> utcnow,
     updated_at |-> utcnow]

upload_file(file, outcome) ==
    LET text_content == file.text
        run == analyze_brief(VirtualLab(FALSE), text_content, outcome)
        result == run.ret.value
        rejected(code, detail) ==
            /\ http' = HTTPException("upload_file", 0, code, detail)
            /\ UNCHANGED project_sessions
    IN  /\ UNCHANGED <<streams, lab>>
        /\ IF Len(file.filename) = 0
           THEN rejected(400, "No file uploaded")
           ELSE IF Lower(Last(file.filename)) \notin allowed_types
           THEN rejected(400, "File type not supported")
           ELSE IF ~file.readable
           THEN rejected(500, "Processing failed: Error parsing file")
           ELSE IF StripLen(text_content) < 50
           THEN rejected(400, "File appears to be empty or too short")
           ELSE IF run.ret.raised
           THEN rejected(500, "Processing failed: " \o run.ret.exc)
           ELSE IF result.status = "error"
           THEN rejected(500, result.error)
           ELSE /\ FreeIds # {}
                /\ project_sessions' =
                      Put(project_sessions, NewId,
                          new_session(NewId, file, text_content, result))
                /\ http' = JSONResponse("upload_file", NewId,
                              [success |-> TRUE, project_id |-> NewId,
                               filename |-> file.filename,
                               extracted_data |-> result.extracted_data,
                               status |-> result.status,
                               checkpoint |-> result.checkpoint,
                               progress_events |-> result.progress_events])

\* Lines 129-131 and 237-239: the confirmation is recorded.
record_confirmation(session, request) ==
    Put(Put(Put(session, "confirmed_data", request.confirmed_data),
            "user_modified_extraction", request.user_modified),
        "checkpoint_1_confirmed_at", utcnow)

\* Variant: the phase is advanced and the results are left out.
store_analysis_phase_only(session, analysis_result) ==
    Put(Put(session, "phase", "checkpoint_2"), "updated_at", utcnow)

\* Lines 176-181 and 254-259: the results of Phase 2 are stored.
store_analysis(session, analysis_result) ==
    Put(Put(Put(Put(Put(Put(session,
        "strategy", analysis_result.strategy),
        "workflow_options", analysis_result.workflow_options),
        "agent_insights", analysis_result.agent_insights),
        "phase", "checkpoint_2"),
        "checkpoint_2_events", analysis_result.progress_events),
        "updated_at", utcnow)

\* ---- confirm_understanding (non-streaming)
\* Variant: the results are stored before the status is looked at.
confirm_understanding_result_stores_first(project_id, confirmed, run) ==
    /\ http' = IF run.ret.value.status = "error"
               THEN HTTPException("confirm_understanding", project_id, 500,
                                  run.ret.value.error)
               ELSE JSONResponse("confirm_understanding", project_id,
                                 [success |-> TRUE, project_id |-> project_id])
    /\ project_sessions' =
          Put(project_sessions, project_id,
              Put(Put(confirmed, "strategy", run.ret.value.strategy),
                  "updated_at", utcnow))

\* Lines 241-277: what the handler does with the run of Phase 2.
confirm_understanding_result(project_id, confirmed, run) ==
    IF run.ret.raised
    THEN /\ http' = HTTPException("confirm_understanding", project_id, 500,
                                  "Analysis failed: " \o run.ret.exc)
         /\ project_sessions' = Put(project_sessions, project_id, confirmed)
    ELSE IF run.ret.value.status = "error"
    THEN /\ http' = HTTPException("confirm_understanding", project_id, 500,
                                  run.ret.value.error)
         /\ project_sessions' = Put(project_sessions, project_id, confirmed)
    ELSE /\ project_sessions' =
               Put(project_sessions, project_id, store_analysis(confirmed, run.ret.value))
         /\ http' = JSONResponse("confirm_understanding", project_id,
               [success |-> TRUE, project_id |-> project_id,
                extracted_data |-> run.ret.value.extracted_data,
                strategy |-> run.ret.value.strategy,
                workflow_options |-> run.ret.value.workflow_options,
                status |-> run.ret.value.status,
                checkpoint |-> run.ret.value.checkpoint,
                progress_events |-> run.ret.value.progress_events])

confirm_understanding(project_id, request, scenario) ==
    /\ UNCHANGED <<streams, lab>>
    /\ IF project_id \notin DOMAIN project_sessions
       THEN /\ http' = HTTPException("confirm_understanding", project_id, 404,
                                     "Project not found")
            /\ UNCHANGED project_sessions
       ELSE LET session == project_sessions[project_id] IN
            IF ~phase_is(session, "checkpoint_1")
            THEN /\ http' = HTTPException("confirm_understanding", project_id, 400,
                                          PhaseMismatch(session["phase"], "checkpoint_1"))
                 /\ UNCHANGED project_sessions
            ELSE confirm_understanding_result(project_id,
                     record_confirmation(session, request),
                     generate_full_analysis(VirtualLab(FALSE),
                         session["original_text"], request.confirmed_data,
                         scenario.outs, scenario.accepts_extra))

\* ---- finalize_workflow
\* Variant: the steps marked required are always part of the workflow.
final_workflow_with_required(all_steps, selected_steps) ==
    SelectSeq(all_steps,
        LAMBDA step : step.required
                      \/ \E i \in 1..Len(selected_steps) : selected_steps[i] = step.id)

\* Line 307: the steps whose id is in the request's list.
final_workflow_of(all_steps, selected_steps) ==
    SelectSeq(all_steps,
        LAMBDA step : \E i \in 1..Len(selected_steps) : selected_steps[i] = step.id)

finalize_workflow(project_id, selected_steps) ==
    /\ UNCHANGED <<streams, lab>>
    /\ IF project_id \notin DOMAIN project_sessions
       THEN /\ http' = HTTPException("finalize_workflow", project_id, 404,
                                     "Project not found")
            /\ UNCHANGED project_sessions
       ELSE LET session == project_sessions[project_id] IN
            IF ~phase_is(session, "checkpoint_2")
            THEN /\ http' = HTTPException("finalize_workflow", project_id, 400,
                                          PhaseMismatch(session["phase"], "checkpoint_2"))
                 /\ UNCHANGED project_sessions
            ELSE LET finalized ==
                         Put(Put(Put(Put(session,
                             "final_workflow_selections",
                                 [selected_steps |-> selected_steps,
                                  modifications |-> None, user_notes |-> None]),
                             "phase", "finalized"),
                             "finalized_at", utcnow),
                             "updated_at", utcnow)
                 IN  /\ project_sessions' = Put(project_sessions, project_id, finalized)
                     /\ IF "workflow_options" \notin DOMAIN finalized
                        THEN http' = HTTPException("finalize_workflow", project_id, 500,
                                                   "KeyError: 'workflow_options'")
                        ELSE LET all_steps == finalized["workflow_options"].steps
                                 final_workflow ==
                                     final_workflow_of(all_steps, selected_steps)
                             IN  http' = JSONResponse("finalize_workflow", project_id,
                                     [success |-> TRUE, project_id |-> project_id,
                                      status |-> "finalized",
                                      final_workflow |-> final_workflow])

\* ---- get_full_report
\* JSONResponse(content) renders its content with json.dumps when it is
\* built.  Strings, numbers, dicts and lists are rendered; the values of
\* agent_insights are AgentInput objects (models/state.py:13), which
\* json.dumps rejects with TypeError.
json_dumps_raises(report) == DOMAIN report.checkpoint_2.agent_insights # {}

get_full_report(project_id) ==
    /\ UNCHANGED <<project_sessions, streams, lab>>
    /\ IF project_id \notin DOMAIN project_sessions
       THEN http' = HTTPException("get_full_report", project_id, 404, "Project not found")
       ELSE LET session == project_sessions[project_id]
                report ==
                    [project_id |-> project_id,
                     filename |-> session["filename"],
                     created_at |-> session["created_at"],
                     finalized_at |-> Get(session, "finalized_at", None),
                     checkpoint_1 |->
                        [original_extraction |-> session["extracted_data"],
                         user_confirmed_data |->
                            Get(session, "confirmed_data", session["extracted_data"]),
                         user_modified |-> Get(session, "user_modified_extraction", FALSE),
                         progress_events |-> Get(session, "checkpoint_1_events", <<>>)],
                     checkpoint_2 |->
                        [strategy_recommended |-> Get(session, "strategy", EmptyDict),
                         agent_insights |-> Get(session, "agent_insights", EmptyDict),
                         workflow_options_presented |->
                            Get(session, "workflow_options", EmptyDict),
                         user_selections |->
                            Get(session, "final_workflow_selections", EmptyDict),
                         progress_events |-> Get(session, "checkpoint_2_events", <<>>)],
                     timeline |->
                        [uploaded |-> session["created_at"],
                         understanding_confirmed |->
                            Get(session, "checkpoint_1_confirmed_at", None),
                         workflow_finalized |-> Get(session, "finalized_at", None)],
                     status |-> session["phase"]]
            IN  IF json_dumps_raises(report)
                THEN http' = HTTPException("get_full_report", project_id, 500,
                        "TypeError: Object of type AgentInput is not JSON serializable")
                ELSE http' = JSONResponse("get_full_report", project_id, report)

\* ---- get_project_status
get_project_status(project_id) ==
    /\ UNCHANGED <<project_sessions, streams, lab>>
    /\ IF project_id \notin DOMAIN project_sessions
       THEN http' = HTTPException("get_project_status", project_id, 404,
                                  "Project not found")
       ELSE LET session == project_sessions[project_id]
            IN  http' = JSONResponse("get_project_status", project_id,
                    [project_id |-> project_id,
                     phase |-> session["phase"],
                     updated_at |-> session["updated_at"],
                     checkpoints |->
                        [checkpoint_1_complete |->
                            "checkpoint_1_confirmed_at" \in DOMAIN session,
                         checkpoint_2_complete |-> "finalized_at" \in DOMAIN session]])

\* ---- confirm_understanding_stream: the handler (lines 111-122, 207-215)
\* A stream is one StreamingResponse: the generator's position (pc), the
\* request it closes over, its task, its locals, and the messages it has
\* yielded to the consumer (sent).
FreeStreams == {s \in 1..MaxStreams : streams[s].pc \in {"idle", "closed"}}
NewStream == CHOOSE s \in FreeStreams : \A t \in FreeStreams : s <= t

confirm_understanding_stream(project_id, request) ==
    /\ UNCHANGED <<project_sessions, lab>>
    /\ IF project_id \notin DOMAIN project_sessions
       THEN /\ http' = HTTPException("confirm_understanding_stream", project_id, 404,
                                     "Project not found")
            /\ UNCHANGED streams
       ELSE LET session == project_sessions[project_id] IN
            IF ~phase_is(session, "checkpoint_1")
            THEN /\ http' = HTTPException("confirm_understanding_stream", project_id, 400,
                                          PhaseMismatch(session["phase"], "checkpoint_1"))
                 /\ UNCHANGED streams
            ELSE /\ FreeStreams # {}
                 /\ streams' = [streams EXCEPT ![NewStream] =
                                   [IdleStream EXCEPT !.pc = "created",
                                                      !.project_id = project_id,
                                                      !.confirmed_data = request.confirmed_data,
                                                      !.user_modified = request.user_modified]]
                 /\ http' = [handler |-> "confirm_understanding_stream",
                             project_id |-> project_id, status_code |-> 200,
                             detail |-> None, body |-> "text/event-stream"]

ProgressMessage(event) == [type |-> "progress", event |-> event]
ErrorMessage(error) == [type |-> "error", error |-> error]
CompleteMessage(project_id, analysis_result) ==
    [type |-> "complete",
     data |-> [success |-> TRUE, project_id |-> project_id,
               extracted_data |-> analysis_result.extracted_data,
               strategy |-> analysis_result.strategy,
               workflow_options |-> analysis_result.workflow_options,
               status |-> analysis_result.status,
               checkpoint |-> analysis_result.checkpoint]]

\* The generator runs to a yield of the first event of a slice
\* all_events[last_event_count:], keeping the rest of the slice.
yield_slice(st, pc) ==
    LET slice == SubSeq(st.all_events, st.last_event_count + 1, Len(st.all_events))
    IN  [st EXCEPT !.pc = pc,
                   !.sent = Append(@, ProgressMessage(Head(slice))),
                   !.pending = Tail(slice)]

\* Variant: the generator ends without a terminal message.
send_no_terminal(st, session) ==
    [stream |-> [st EXCEPT !.pc = "yield_final"], session |-> session]

\* Variant: the opinions are not stored in the session.
send_terminal_without_insights(st, session) ==
    IF st.task_result.value.status = "error"
    THEN [stream |-> [st EXCEPT !.pc = "yield_final",
                                !.sent = Append(@, ErrorMessage(st.task_result.value.error))],
          session |-> session]
    ELSE [stream |-> [st EXCEPT !.pc = "yield_final",
                                !.sent = Append(@, CompleteMessage(st.project_id,
                                                                  st.task_result.value))],
          session |-> store_analysis(session,
                          [st.task_result.value EXCEPT !.agent_insights = EmptyDict])]

\* Lines 171-205: after the remaining events, the terminal message.  The
\* result is the stream and the session afterwards.
send_terminal(st, session) ==
    IF st.task_result.raised
    THEN [stream |-> [st EXCEPT !.pc = "yield_final",
                                !.sent = Append(@, ErrorMessage(st.task_result.exc))],
          session |-> session]
    ELSE LET analysis_result == st.task_result.value IN
         IF analysis_result.status = "error"
         THEN [stream |-> [st EXCEPT !.pc = "yield_final",
                                     !.sent = Append(@, ErrorMessage(analysis_result.error))],
               session |-> session]
         ELSE [stream |-> [st EXCEPT !.pc = "yield_final",
                                     !.sent = Append(@, CompleteMessage(st.project_id,
                                                                       analysis_result))],
               session |-> store_analysis(session, analysis_result)]

\* Variant: the events left after the loop are not sent.
flush_nothing(st, session) == send_terminal(st, session)

\* Lines 163-169: the task is done; the events not yet sent are sent.
flush_remaining(st, session) ==
    IF Len(st.all_events) > st.last_event_count
    THEN [stream |-> yield_slice(st, "yield_flush"), session |-> session]
    ELSE send_terminal(st, session)

\* Lines 127-161, first run: the confirmation is recorded, the task is
\* created, the loop finds no event and sleeps.
EventGeneratorStart(s) ==
    LET st == streams[s]
        session == project_sessions[st.project_id]
    IN  /\ st.pc = "created"
        /\ project_sessions' =
              Put(project_sessions, st.project_id,
                  record_confirmation(session, [confirmed_data |-> st.confirmed_data,
                                                user_modified |-> st.user_modified]))
        /\ streams' = [streams EXCEPT ![s] =
                          [st EXCEPT !.pc = "sleeping", !.task = "pending",
                                     !.all_events = <<>>, !.last_event_count = 0]]
        /\ UNCHANGED <<http, lab>>

\* The task created at line 144: generate_full_analysis with the callback
\* that appends to all_events.
task_done(st, run) ==
    [st EXCEPT !.task = "done", !.task_result = run.ret,
               !.all_events = st.all_events \o run.self.all_events]

\* Variant: all_events is one list shared by the generators, so the
\* callback of a run appends to the list of every stream.
AnalysisTask_shared_list(s, scenario) ==
    LET st == streams[s]
        run == generate_full_analysis(VirtualLab(TRUE),
                   project_sessions[st.project_id]["original_text"],
                   st.confirmed_data, scenario.outs, scenario.accepts_extra)
    IN  /\ st.task = "pending"
        /\ streams' = [t \in DOMAIN streams |->
                          IF t = s THEN task_done(st, run)
                          ELSE [streams[t] EXCEPT !.all_events = @ \o run.self.all_events]]
        /\ UNCHANGED <<project_sessions, http, lab>>

AnalysisTask(s, scenario) ==
    LET st == streams[s] IN
    /\ st.task = "pending"
    /\ streams' = [streams EXCEPT ![s] =
                      task_done(st, generate_full_analysis(VirtualLab(TRUE),
                          project_sessions[st.project_id]["original_text"],
                          st.confirmed_data, scenario.outs, scenario.accepts_extra))]
    /\ UNCHANGED <<project_sessions, http, lab>>

\* Lines 153-169: the generator wakes from asyncio.sleep.
EventGeneratorWake(s) ==
    LET st == streams[s]
        session == project_sessions[st.project_id]
    IN  /\ st.pc = "sleeping"
        /\ UNCHANGED <<http, lab>>
        /\ IF st.task # "done"
           THEN /\ streams' = [streams EXCEPT ![s] =
                                 IF Len(st.all_events) > st.last_event_count
                                 THEN yield_slice(st, "yield_loop")
                                 ELSE st]
                /\ UNCHANGED project_sessions
           ELSE LET next == flush_remaining(st, session)
                IN  /\ streams' = [streams EXCEPT ![s] = next.stream]
                    /\ project_sessions' = Put(project_sessions, st.project_id, next.session)

\* The consumer asks for the next message while the generator is at a
\* yield inside one of the two for loops (lines 157-159, 168-169).
EventGeneratorNext(s) ==
    LET st == streams[s]
        session == project_sessions[st.project_id]
    IN  /\ st.pc \in {"yield_loop", "yield_flush"}
        /\ UNCHANGED <<http, lab>>
        /\ IF Len(st.pending) > 0
           THEN /\ streams' = [streams EXCEPT ![s] =
                                 [st EXCEPT !.sent = Append(@, ProgressMessage(Head(st.pending))),
                                            !.pending = Tail(@)]]
                /\ UNCHANGED project_sessions
           ELSE IF st.pc = "yield_loop"
           THEN /\ streams' = [streams EXCEPT ![s] =
                                 [st EXCEPT !.pc = "sleeping",
                                            !.last_event_count = Len(st.all_events)]]
                /\ UNCHANGED project_sessions
           ELSE LET next == send_terminal(st, session)
                IN  /\ streams' = [streams EXCEPT ![s] = next.stream]
                    /\ project_sessions' = Put(project_sessions, st.project_id, next.session)

\* The generator returns after its terminal yield.
EventGeneratorReturn(s) ==
    /\ streams[s].pc = "yield_final"
    /\ streams' = [streams EXCEPT ![s].pc = "closed"]
    /\ UNCHANGED <<project_sessions, http, lab>>

\* ------------------------------------------------------ specification
Init ==
    /\ project_sessions = EmptyDict
    /\ streams = [s \in 1..MaxStreams |-> IdleStream]
    /\ http = NoResponse
    /\ requests = 0
    /\ lab = NoLab

\* http is the response of the handler that ran last, until the server has
\* written it out; the loop takes its next step after that.
Quiet == http.status_code = 0
Receive == Quiet /\ requests < MaxRequests /\ requests' = requests + 1
Resume == Quiet /\ UNCHANGED requests

UploadFile ==
    /\ Receive
    /\ \E file \in Files, outcome \in UploadOutcomes : upload_file(file, outcome)

ConfirmUnderstanding ==
    /\ Receive
    /\ \E p \in RequestIds, request \in ConfirmBodies, scenario \in Scenarios :
          confirm_understanding(p, request, scenario)

ConfirmUnderstandingStream ==
    /\ Receive
    /\ \E p \in RequestIds, request \in ConfirmBodies :
          confirm_understanding_stream(p, request)

FinalizeWorkflow ==
    /\ Receive
    /\ \E p \in RequestIds, selected_steps \in Selections :
          finalize_workflow(p, selected_steps)

GetFullReport ==
    /\ Receive
    /\ \E p \in RequestIds : get_full_report(p)

GetProjectStatus ==
    /\ Receive
    /\ \E p \in RequestIds : get_project_status(p)

GeneratorStart == Resume /\ \E s \in DOMAIN streams : EventGeneratorStart(s)
TaskRun == Resume /\ \E s \in DOMAIN streams, scenario \in Scenarios : AnalysisTask(s, scenario)
GeneratorWake == Resume /\ \E s \in DOMAIN streams : EventGeneratorWake(s)
GeneratorNext == Resume /\ \E s \in DOMAIN streams : EventGeneratorNext(s)
GeneratorReturn == Resume /\ \E s \in DOMAIN streams : EventGeneratorReturn(s)

SendResponse ==
    /\ ~Quiet
    /\ http' = NoResponse
    /\ UNCHANGED <<project_sessions, streams, requests, lab>>

Next ==
    \/ UploadFile
    \/ ConfirmUnderstanding
    \/ ConfirmUnderstandingStream
    \/ FinalizeWorkflow
    \/ GetFullReport
    \/ GetProjectStatus
    \/ GeneratorStart
    \/ TaskRun
    \/ GeneratorWake
    \/ GeneratorNext
    \/ GeneratorReturn
    \/ SendResponse

Spec == Init /\ [][Next]_vars

\* The event loop runs every task that is ready, the server writes every
\* response out, and the consumer of a stream keeps reading it.
FairSpec ==
    /\ Spec
    /\ WF_vars(SendResponse)
    /\ WF_vars(GeneratorStart)
    /\ WF_vars(TaskRun)
    /\ WF_vars(GeneratorWake)
    /\ WF_vars(GeneratorNext)
    /\ WF_vars(GeneratorReturn)

\* --------------------------------------- specification of the two confirms
\* ConfirmSpec starts after two uploads of the same file with the same
\* extraction: session 1 receives the non-streaming confirm, session 2 the
\* streaming one, with the same body and the same Completion Client
\* outcomes (lab holds both).
ConfirmScenarios ==
    Scenarios \cup
    {Scenario(TextResponse(OpinionModifyText), TextResponse(OpinionDeNovoText),
              TextResponse(OpinionModifyText), TextResponse(ListJsonText), TRUE),
     Scenario(TextResponse(OpinionBadConfText), TextResponse(OpinionDeNovoText),
              TextResponse(OpinionModifyText), TextResponse(StrategyJsonText), TRUE),
     Scenario(TextResponse(OpinionModifyText), TextResponse(OpinionDeNovoText),
              TextResponse(OpinionModifyText), TextResponse(StrategyJsonText), FALSE)}

PlainId == 1
StreamedId == 2

UploadedFile == [filename |-> <<"brief", "txt">>, readable |-> TRUE, text |-> LongBrief]

UploadedSession(project_id) ==
    new_session(project_id, UploadedFile, UploadedFile.text,
                analyze_brief(VirtualLab(FALSE), UploadedFile.text,
                              TextResponse(FactsJsonText)).ret.value)

ConfirmInit ==
    /\ project_sessions = Put(Put(EmptyDict, PlainId, UploadedSession(PlainId)),
                              StreamedId, UploadedSession(StreamedId))
    /\ streams = [s \in 1..MaxStreams |-> IdleStream]
    /\ http = NoResponse
    /\ requests = 0
    /\ lab \in {[op |-> "confirm", pc |-> "ready", request |-> r, scenario |-> sc] :
                   r \in ConfirmBodies, sc \in ConfirmScenarios}

PlainConfirm ==
    /\ Receive
    /\ "checkpoint_1_confirmed_at" \notin DOMAIN project_sessions[PlainId]
    /\ confirm_understanding(PlainId, lab.request, lab.scenario)

StreamedConfirm ==
    /\ Receive
    /\ \A s \in 1..MaxStreams : streams[s].pc = "idle"
    /\ confirm_understanding_stream(StreamedId, lab.request)

StreamedTaskRun == Resume /\ \E s \in 1..MaxStreams : AnalysisTask(s, lab.scenario)

ConfirmNext ==
    \/ PlainConfirm
    \/ StreamedConfirm
    \/ GeneratorStart
    \/ StreamedTaskRun
    \/ GeneratorWake
    \/ GeneratorNext
    \/ GeneratorReturn
    \/ SendResponse

ConfirmSpec == ConfirmInit /\ [][ConfirmNext]_vars

\* ------------------------------------ specification of an uploaded session
\* SessionSpec starts when an upload has created a session: the requests
\* that follow are the ones of Spec.
SessionInit ==
    /\ project_sessions = Put(EmptyDict, PlainId, UploadedSession(PlainId))
    /\ streams = [s \in 1..MaxStreams |-> IdleStream]
    /\ http = NoResponse
    /\ requests = 0
    /\ lab = NoLab

SessionSpec == SessionInit /\ [][Next]_vars

\* ---------------------------------- specification of two concurrent confirms
\* IsolationSpec starts when confirm_understanding_stream has accepted two
\* requests, for the same session or for two sessions, and neither
\* generator has started: the two generators and their tasks then take
\* their steps in any order, and a non-streaming confirm request arrives
\* at any moment.
CreatedStream(project_id, request) ==
    [IdleStream EXCEPT !.pc = "created", !.project_id = project_id,
                       !.confirmed_data = request.confirmed_data,
                       !.user_modified = request.user_modified]

IsolationInit ==
    /\ project_sessions = Put(Put(EmptyDict, PlainId, UploadedSession(PlainId)),
                              StreamedId, UploadedSession(StreamedId))
    /\ streams \in {<<CreatedStream(StreamedId, r1), CreatedStream(p, r2)>> :
                        r1 \in {[confirmed_data |-> ModelFacts, user_modified |-> FALSE]},
                        r2 \in ConfirmBodies, p \in {PlainId, StreamedId}}
    /\ http = NoResponse
    /\ requests = 0
    /\ lab = NoLab

IsolationConfirm ==
    /\ Receive
    /\ requests = 0
    /\ \E request \in ConfirmBodies, scenario \in Scenarios :
          confirm_understanding(PlainId, request, scenario)

IsolationNext ==
    \/ IsolationConfirm
    \/ GeneratorStart
    \/ TaskRun
    \/ GeneratorWake
    \/ GeneratorNext
    \/ GeneratorReturn
    \/ SendResponse

IsolationSpec == IsolationInit /\ [][IsolationNext]_vars

\* ------------------------------------------------ properties of the session
PhaseRank(phase) ==
    CASE phase = "checkpoint_1" -> 1
      [] phase = "checkpoint_2" -> 2
      [] phase = "finalized" -> 3

OutOfPhaseRequest ==
    /\ Quiet
    /\ http'.status_code # 0
    /\ http'.project_id \in DOMAIN project_sessions
    /\ \/ /\ http'.handler \in {"confirm_understanding", "confirm_understanding_stream"}
          /\ project_sessions[http'.project_id]["phase"] # "checkpoint_1"
       \/ /\ http'.handler = "finalize_workflow"
          /\ project_sessions[http'.project_id]["phase"] # "checkpoint_2"

\* C3: a confirm request (either variant) on a session not in checkpoint_1,
\* and a finalize request on a session not in checkpoint_2, is rejected with
\* the phase-mismatch error (status 400) and changes no field of any session
\* and starts no stream.
C3_OutOfPhaseRejected ==
    [][OutOfPhaseRequest =>
          /\ http'.status_code = 400
          /\ http'.detail =
                PhaseMismatch(project_sessions[http'.project_id]["phase"],
                              IF http'.handler = "finalize_workflow"
                              THEN "checkpoint_2" ELSE "checkpoint_1")
          /\ project_sessions' = project_sessions
          /\ streams' = streams]_vars

\* A finalize request was rejected on a session still in checkpoint_1
\* (finalize before confirm).
C3_Witness ==
    /\ http.status_code = 400
    /\ http.handler = "finalize_workflow"
    /\ http.detail = "Project is in phase 'checkpoint_1', expected 'checkpoint_2'"
    /\ project_sessions[http.project_id]["phase"] = "checkpoint_1"

\* C25: an upload proceeds to Phase 1 and creates a session if and only if
\* the extracted text holds at least 50 non-whitespace characters; a text
\* with fewer (30 letters separated by 25 blanks) is rejected and the
\* session store is unchanged.  Stated on the store: every session was
\* created from a text with at least 50 non-whitespace characters.
C25_FiftyNonWhitespace ==
    \A p \in DOMAIN project_sessions :
        project_sessions[p]["original_text"].non_ws >= 50

\* A step in which finalize_workflow answered a request for a session that
\* was in checkpoint_2.
FinalizeInPhase ==
    /\ Quiet
    /\ http'.handler = "finalize_workflow"
    /\ http'.project_id \in DOMAIN project_sessions
    /\ project_sessions[http'.project_id]["phase"] = "checkpoint_2"

\* The index of a step in a list of steps.
StepIndex(steps, step) == CHOOSE k \in 1..Len(steps) : steps[k] = step

\* C26: finalize on a session in checkpoint_2 succeeds for every
\* selected_steps list; final_workflow holds exactly the steps of the
\* session's workflow options whose id occurs in the list, in catalog order
\* and each once: unknown ids are dropped, and a required step that is not
\* in the list is not in the final workflow.
C26_FinalWorkflowFiltered ==
    [][FinalizeInPhase =>
          LET all_steps == project_sessions[http'.project_id]["workflow_options"].steps
              selected == project_sessions'[http'.project_id]
                              ["final_workflow_selections"].selected_steps
              final == http'.body.final_workflow
          IN  /\ http'.status_code = 200
              /\ \A i \in 1..Len(final) : \E k \in 1..Len(all_steps) : all_steps[k] = final[i]
              /\ \A i, j \in 1..Len(final) :
                    i < j => StepIndex(all_steps, final[i]) < StepIndex(all_steps, final[j])
              /\ {final[i].id : i \in 1..Len(final)}
                    = {all_steps[k].id : k \in 1..Len(all_steps)}
                        \cap {selected[i] : i \in 1..Len(selected)}]_vars

\* A list that names a later step before an earlier one, one step twice and
\* an unknown id, and leaves out a required step, was finalized.
C26_Witness ==
    /\ http.handler = "finalize_workflow"
    /\ http.status_code = 200
    /\ Len(http.body.final_workflow) = 2
    /\ http.body.final_workflow[1].id = "fetch_candidates"
    /\ http.body.final_workflow[2].id = "run_alphafold"
    /\ project_sessions[http.project_id]["final_workflow_selections"].selected_steps
          = <<"run_alphafold", "unknown_step", "fetch_candidates", "run_alphafold">>

UploadFields ==
    {"original_text", "filename", "extracted_data", "checkpoint_1_events", "created_at"}

\* A step in which get_full_report answered a request for a session.
ReportRequest ==
    /\ Quiet
    /\ http'.handler = "get_full_report"
    /\ http'.project_id \in DOMAIN project_sessions

ConfirmationFields ==
    {"confirmed_data", "user_modified_extraction", "checkpoint_1_confirmed_at"}

\* The fields a confirm request writes after a successful Phase 2.
AnalysisFields ==
    {"strategy", "workflow_options", "agent_insights", "checkpoint_2_events"}

\* Session p is the same after the step but for the confirmation fields.
OnlyConfirmationWritten(p) ==
    /\ DOMAIN project_sessions'[p] \ ConfirmationFields
          = DOMAIN project_sessions[p] \ ConfirmationFields
    /\ \A f \in DOMAIN project_sessions[p] \ ConfirmationFields :
          project_sessions'[p][f] = project_sessions[p][f]

\* A step in which the non-streaming confirm ran Phase 2 and failed.
PlainConfirmFailed ==
    /\ Quiet
    /\ http'.handler = "confirm_understanding"
    /\ http'.status_code = 500

\* A step of the generator of stream s, or of its task, other than the one
\* that stores a successful result and sends the complete message.
StreamStepWithoutResult(s) ==
    /\ streams[s].pc \notin {"idle", "closed"}
    /\ streams'[s] # streams[s]
    /\ ~(/\ Len(streams'[s].sent) > Len(streams[s].sent)
         /\ Last(streams'[s].sent).type = "complete")

\* C31: a confirm request whose Phase 2 ends with status error writes to
\* the session the confirmed facts, the modified flag and the confirmation
\* time and nothing else: no strategy, workflow_options, agent_insights or
\* checkpoint_2_events, and the phase stays as it was (checkpoint_1 for the
\* non-streaming confirm, which nothing interleaves with).
C31_FailedConfirmFrame ==
    [][/\ PlainConfirmFailed =>
             /\ OnlyConfirmationWritten(http'.project_id)
             /\ ConfirmationFields \subseteq DOMAIN project_sessions'[http'.project_id]
             /\ project_sessions'[http'.project_id]["phase"] = "checkpoint_1"
             /\ AnalysisFields \cap DOMAIN project_sessions'[http'.project_id] = {}
       /\ \A s \in 1..MaxStreams :
             StreamStepWithoutResult(s) =>
                 /\ OnlyConfirmationWritten(streams[s].project_id)
                 /\ \A q \in DOMAIN project_sessions \ {streams[s].project_id} :
                        project_sessions'[q] = project_sessions[q]]_vars

\* Both variants have failed on the session: it is still in checkpoint_1
\* with the confirmation recorded and no result.
C31_Witness ==
    /\ http.handler = "confirm_understanding"
    /\ http.status_code = 500
    /\ \E s \in 1..MaxStreams :
          /\ streams[s].pc = "closed"
          /\ streams[s].project_id = http.project_id
          /\ Last(streams[s].sent).type = "error"
    /\ project_sessions[http.project_id]["phase"] = "checkpoint_1"
    /\ ConfirmationFields \subseteq DOMAIN project_sessions[http.project_id]
    /\ AnalysisFields \cap DOMAIN project_sessions[http.project_id] = {}

\* C32: in every reachable state a session in checkpoint_2 or finalized
\* holds confirmed_data, strategy, workflow_options, agent_insights and
\* checkpoint_2_events, a finalized session also final_workflow_selections
\* and finalized_at, and finalize_workflow never fails for want of
\* workflow_options.
C32_PhaseImpliesFields ==
    /\ \A p \in DOMAIN project_sessions :
          LET session == project_sessions[p] IN
          /\ session["phase"] \in {"checkpoint_2", "finalized"} =>
                ({"confirmed_data"} \cup AnalysisFields) \subseteq DOMAIN session
          /\ session["phase"] = "finalized" =>
                {"final_workflow_selections", "finalized_at"} \subseteq DOMAIN session
    /\ http.handler = "finalize_workflow" => http.status_code \in {200, 400, 404}

\* A finalize was accepted and read the steps of the session.
C32_Witness ==
    /\ http.handler = "finalize_workflow"
    /\ http.status_code = 200
    /\ project_sessions[http.project_id]["phase"] = "finalized"
    /\ Len(project_sessions[http.project_id]["workflow_options"].steps) = 6

\* A step in which finalize_workflow accepted a request.
FinalizeAccepted ==
    /\ Quiet
    /\ http'.handler = "finalize_workflow"
    /\ http'.status_code = 200

C34_StatusMatchesPhase ==
    (http.handler = "get_project_status" /\ http.status_code = 200) =>
        /\ http.body.phase = project_sessions[http.project_id]["phase"]
        /\ http.body.checkpoints.checkpoint_1_complete =>
              http.body.phase \in {"checkpoint_2", "finalized"}
        /\ http.body.checkpoints.checkpoint_2_complete =>
              http.body.phase = "finalized"

\* A step in which the handler named answered a request.
Answered(handler) == Quiet /\ http'.handler = handler

\* C36: a session enters the store only in a step in which upload_file
\* answers 200 for a file that passed its validation (a name with an
\* allowed extension, a readable text of stripped length 50 or more) and
\* whose Phase 1 did not fail, and it enters with phase checkpoint_1; an
\* upload answered with an error leaves the store as it was; a confirm,
\* finalize, report or status request for an id that is not in the store is
\* answered 404 and changes no session and starts no stream.
C36_StoreGrowsByUploadOnly ==
    [][/\ DOMAIN project_sessions \subseteq DOMAIN project_sessions'
       /\ DOMAIN project_sessions' # DOMAIN project_sessions =>
             /\ Answered("upload_file")
             /\ http'.status_code = 200
             /\ DOMAIN project_sessions' = DOMAIN project_sessions \cup {http'.project_id}
             /\ \A p \in DOMAIN project_sessions : project_sessions'[p] = project_sessions[p]
             /\ LET session == project_sessions'[http'.project_id] IN
                /\ session["phase"] = "checkpoint_1"
                /\ session["project_id"] = http'.project_id
                /\ Lower(Last(session["filename"])) \in allowed_types
                /\ StripLen(session["original_text"]) >= 50
                /\ session["checkpoint_1_events"] # <<>>
                /\ Last(session["checkpoint_1_events"]).event_type # ERROR
                /\ http'.body.status # "error"
       /\ Answered("upload_file") =>
             IF http'.status_code = 200
             THEN DOMAIN project_sessions' # DOMAIN project_sessions
             ELSE /\ http'.status_code \in {400, 500}
                  /\ project_sessions' = project_sessions
       /\ \A handler \in {"confirm_understanding", "confirm_understanding_stream",
                           "finalize_workflow", "get_full_report", "get_project_status"} :
             (Answered(handler) /\ http'.project_id \notin DOMAIN project_sessions) =>
                 /\ http'.status_code = 404
                 /\ http'.detail = "Project not found"
                 /\ project_sessions' = project_sessions
                 /\ streams' = streams]_vars

\* With a session in the store, a request for an id that is not in it was
\* answered not-found.
C36_Witness ==
    /\ http.handler = "finalize_workflow"
    /\ http.status_code = 404
    /\ http.project_id \notin DOMAIN project_sessions
    /\ \E p \in DOMAIN project_sessions : project_sessions[p]["phase"] = "checkpoint_1"

\* The events of the progress messages of a stream, in the order sent.
ProgressEvents(sent) ==
    LET progress == SelectSeq(sent, LAMBDA m : m.type = "progress")
    IN  [i \in 1..Len(progress) |-> progress[i].event]

Terminals(sent) == SelectSeq(sent, LAMBDA m : m.type \in {"complete", "error"})

IsPrefix(a, b) == Len(a) <= Len(b) /\ SubSeq(b, 1, Len(a)) = a

\* C4: in the streaming confirm the progress messages sent are the events
\* the task emitted, in the same order, none twice and none skipped: at
\* every moment they are a prefix of the task's event log, and the whole of
\* it once the terminal message is sent.
C4_ProgressMatchesEvents ==
    \A s \in 1..MaxStreams :
        LET st == streams[s] IN
        /\ st.task # "done" => ProgressEvents(st.sent) = <<>>
        /\ st.task = "done" =>
              /\ ~st.task_result.raised
              /\ IsPrefix(ProgressEvents(st.sent), st.task_result.value.progress_events)
              /\ st.pc \in {"yield_final", "closed"} =>
                    ProgressEvents(st.sent) = st.task_result.value.progress_events

\* A stream ended after the twelve events of a complete analysis and the
\* complete message.
C4_Witness ==
    \E s \in 1..MaxStreams :
        /\ streams[s].pc = "closed"
        /\ Len(ProgressEvents(streams[s].sent)) = 12
        /\ Last(streams[s].sent).type = "complete"

OneTerminalLast(st) ==
    /\ Len(Terminals(st.sent)) <= 1
    /\ Len(Terminals(st.sent)) = 1 =>
          /\ Last(st.sent).type \in {"complete", "error"}
          /\ st.pc \in {"yield_final", "closed"}
    /\ st.pc \in {"yield_final", "closed"} => Len(Terminals(st.sent)) = 1

\* C5: every streaming confirm ends, and ends with exactly one terminal
\* message (complete or error, never both, never none), after which no
\* progress message is sent.
C5_ExactlyOneTerminal ==
    \A s \in 1..MaxStreams :
        /\ [](OneTerminalLast(streams[s]))
        /\ (streams[s].pc = "created") ~> (streams[s].pc = "closed")

\* A stream whose analysis failed ended with the error message, after the
\* progress messages.
C5_Witness ==
    \E s \in 1..MaxStreams :
        /\ streams[s].pc = "closed"
        /\ Last(streams[s].sent).type = "error"
        /\ Len(Terminals(streams[s].sent)) = 1
        /\ Len(streams[s].sent) > 1

\* -------------------------------------------- properties of the two confirms
ConfirmFields ==
    {"phase", "confirmed_data", "strategy", "workflow_options", "agent_insights",
     "checkpoint_2_events"}

\* The non-streaming confirm has run on session 1 and the stream of the
\* streaming confirm on session 2 has sent its terminal message.
BothConfirmed ==
    /\ lab.op = "confirm"
    /\ "checkpoint_1_confirmed_at" \in DOMAIN project_sessions[PlainId]
    /\ \E s \in 1..MaxStreams :
          streams[s].project_id = StreamedId /\ streams[s].pc \in {"yield_final", "closed"}

StreamedTerminal ==
    Last(streams[CHOOSE s \in 1..MaxStreams : streams[s].project_id = StreamedId].sent)

\* C24: for the same session state and the same Completion Client outcomes
\* the streaming and the non-streaming confirm leave the session in the same
\* state (phase, confirmed_data, strategy, workflow_options, agent_insights,
\* checkpoint_2_events) and deliver the same strategy, workflow options,
\* status and checkpoint; when Phase 2 fails both deliver the error and
\* both leave the session in the same state.
C24_ConfirmsAgree ==
    BothConfirmed =>
        /\ \A f \in ConfirmFields :
              /\ (f \in DOMAIN project_sessions[PlainId])
                    = (f \in DOMAIN project_sessions[StreamedId])
              /\ f \in DOMAIN project_sessions[PlainId] =>
                    project_sessions[PlainId][f] = project_sessions[StreamedId][f]
        /\ (project_sessions[PlainId]["phase"] = "checkpoint_2")
              = (StreamedTerminal.type = "complete")
        /\ (http.handler = "confirm_understanding" /\ http.status_code = 200) =>
              /\ StreamedTerminal.type = "complete"
              /\ \A k \in {"strategy", "workflow_options", "status", "checkpoint"} :
                    StreamedTerminal.data[k] = http.body[k]
        /\ (http.handler = "confirm_understanding" /\ http.status_code # 200) =>
              /\ http.status_code = 500
              /\ StreamedTerminal.type = "error"
              /\ StreamedTerminal.error = http.detail

\* Both confirms delivered the strategy of a complete analysis.
C24_Witness ==
    /\ BothConfirmed
    /\ http.handler = "confirm_understanding"
    /\ http.status_code = 200
    /\ StreamedTerminal.type = "complete"
    /\ StreamedTerminal.data.strategy.title = "De Novo Design"
    /\ project_sessions[StreamedId]["phase"] = "checkpoint_2"

\* ------------------------------------------------- properties of the phases
LabDone == lab.pc = "done"
LabResult == lab.run.ret.value
FactKeys == {"target", "timeline", "budget", "goal", "confidence"}

\* C6: analyze_brief and generate_full_analysis never raise: every call
\* returns a result with a status field, and a result with status error
\* carries the failure description and its event log ends with an Error
\* event reporting it.
C6_PhasesNeverRaise ==
    LabDone =>
        /\ ~lab.run.ret.raised
        /\ "status" \in DOMAIN LabResult
        /\ LabResult.status = "error" =>
              /\ "error" \in DOMAIN LabResult
              /\ LabResult.error \in
                    {"Chat completion failed: timeout",
                     "could not convert string to float: '0.85.'",
                     "'list' object has no attribute 'get'",
                     "\"ProjectState\" object has no field \"metadata\""}
              /\ Len(LabResult.progress_events) > 0
              /\ Last(LabResult.progress_events).event_type = ERROR
              /\ Last(LabResult.progress_events).message \in
                    {"Error during extraction: " \o LabResult.error,
                     "Error during analysis: " \o LabResult.error}

\* A Phase-2 run whose second Completion Client call failed ended with an
\* error result; so did a Phase-1 run whose call failed.
C6_Witness ==
    /\ LabDone
    /\ lab.op = "generate_full_analysis"
    /\ Len(lab.run.calls) = 2
    /\ ~lab.run.calls[2].outcome.ok
    /\ ~lab.run.ret.raised
    /\ LabResult.status = "error"

\* C7: when the Completion Client call itself fails in extract_key_data or
\* in synthesize_strategy, the operation degrades to its fallback value and
\* the phase ends with a non-error status.
C7_ProviderFailureDegrades ==
    LabDone =>
        /\ (lab.op = "analyze_brief" /\ ~lab.run.calls[1].outcome.ok) =>
              /\ LabResult.status # "error"
              /\ LabResult.extracted_data = FallbackFacts
        /\ (lab.op = "generate_full_analysis" /\ Len(lab.run.calls) = 4
              /\ ~lab.run.calls[4].outcome.ok) =>
              /\ LabResult.status # "error"
              /\ LabResult.strategy = FallbackStrategy

Undecodable(outcome) == outcome.ok /\ json_loads(outcome.content).raised

\* C8: when the Completion Client returns text that is not JSON,
\* extract_key_data yields exactly the fallback facts (confidence 0.8) and
\* synthesize_strategy exactly the fallback strategy (Modify Existing
\* Nanobodies, confidence 0.7, four candidates), and the phase ends with a
\* non-error status.
C8_UndecodableTextFallsBack ==
    LabDone =>
        /\ (lab.op = "analyze_brief" /\ Undecodable(lab.run.calls[1].outcome)) =>
              /\ ~lab.run.ret.raised
              /\ LabResult.status = "awaiting_confirmation"
              /\ LabResult.extracted_data =
                    [target |-> "Extracted target", timeline |-> "Extracted timeline",
                     budget |-> "Extracted budget", goal |-> "Extracted goal",
                     confidence |-> 80]
        /\ (lab.op = "generate_full_analysis" /\ Len(lab.run.calls) = 4
              /\ Undecodable(lab.run.calls[4].outcome)) =>
              /\ ~lab.run.ret.raised
              /\ LabResult.status = "awaiting_workflow_selection"
              /\ DOMAIN LabResult.strategy =
                    {"title", "rationale", "candidates", "confidence", "alternatives"}
              /\ LabResult.strategy.title = "Modify Existing Nanobodies"
              /\ LabResult.strategy.confidence = 70
              /\ LabResult.strategy.candidates = <<"Ty1", "H11-D4", "Nb21", "VHH-72">>
              /\ Len(LabResult.strategy.rationale) = 3
              /\ LabResult.strategy.alternatives = <<>>

\* A Phase-2 run reached the synthesis call, which returned prose.
C8_Witness ==
    /\ LabDone
    /\ lab.op = "generate_full_analysis"
    /\ Len(lab.run.calls) = 4
    /\ lab.run.calls[4].outcome = TextResponse(ProseText)
    /\ LabResult.strategy.confidence = 70

\* C9: analyze_brief on a valid brief returns checkpoint
\* understanding_confirmation and facts whose keys are exactly target,
\* timeline, budget, goal and confidence, whatever text the Completion
\* Client returns.
C9_FactsHaveFiveKeys ==
    (LabDone /\ lab.op = "analyze_brief" /\ StripLen(lab.text) >= 50
        /\ lab.run.calls[1].outcome.ok) =>
        /\ ~lab.run.ret.raised
        /\ "checkpoint" \in DOMAIN LabResult
        /\ LabResult.checkpoint = "understanding_confirmation"
        /\ DOMAIN LabResult.extracted_data = FactKeys

FullAnalysisDone == LabDone /\ lab.op = "generate_full_analysis"
LabEvents == LabResult.progress_events
Progress(events) == [i \in 1..Len(events) |-> events[i].progress]

\* C11: when a step of generate_full_analysis fails, the last event is an
\* Error event carrying the failure description, and the result holds the
\* confirmed facts passed in, strategy {}, status error and the
\* description, without agent_insights or workflow_options; the events of
\* the steps completed before the failure are still in the returned log.
C11_FailureResult ==
    (FullAnalysisDone /\ LabResult.status = "error") =>
        /\ DOMAIN LabResult =
              {"extracted_data", "strategy", "status", "error", "progress_events"}
        /\ LabResult.extracted_data = lab.confirmed_data
        /\ LabResult.strategy = EmptyDict
        /\ LabEvents = lab.run.self.events
        /\ Last(LabEvents).event_type = ERROR
        /\ Last(LabEvents).message = "Error during analysis: " \o LabResult.error
        /\ \A i \in 1..(Len(LabEvents) - 1) : LabEvents[i].event_type # ERROR
        /\ LabEvents[1].step_name = "Initializing Virtual Lab"
        /\ Len(LabEvents) - 1 \in {1, 3, 5, 7, 9, 11}
        /\ Len(LabEvents) - 1 >= 2 * Len(lab.run.calls) + 1
              \/ (Len(lab.run.calls) = 0 /\ Len(LabEvents) = 2)

\* The synthesis returned a JSON array: the workflow construction failed
\* after eleven events.
C11_Witness ==
    /\ FullAnalysisDone
    /\ LabResult.status = "error"
    /\ Len(lab.run.calls) = 4
    /\ Len(LabEvents) = 12
    /\ LabEvents[11].step_name = "Workflow Construction"

CallOrder == <<IMMUNOLOGIST, ML_SPECIALIST, COMP_BIOLOGIST, PI>>

\* The opinions a prompt shows.
PromptOpinions(call) ==
    IF "previous_inputs" \in DOMAIN call.prompt
    THEN call.prompt.previous_inputs
    ELSE call.prompt.team_summary

\* C14: Phase 2 calls the Completion Client in the order Immunologist, ML
\* Specialist, Computational Biologist, PI synthesis; the prompt of the
\* k-th call holds the brief and exactly the k-1 opinions of the earlier
\* calls, in order, and every earlier call has returned.
C14_SequentialPrompts ==
    FullAnalysisDone =>
        /\ Len(lab.run.calls) <= 4
        /\ \A k \in 1..Len(lab.run.calls) :
              LET call == lab.run.calls[k] IN
              /\ call.agent = CallOrder[k]
              /\ call.outcome = lab.outs[k]
              /\ call.prompt.text = lab.text
              /\ (k = 4) = ("team_summary" \in DOMAIN call.prompt)
              /\ Len(PromptOpinions(call)) = k - 1
              /\ \A i \in 1..(k - 1) :
                    /\ lab.run.calls[i].outcome.ok
                    /\ PromptOpinions(call)[i].agent = CallOrder[i]
                    /\ PromptOpinions(call)[i].analysis = lab.run.calls[i].outcome.content

\* The synthesis call was reached and its prompt shows three opinions.
C14_Witness ==
    /\ FullAnalysisDone
    /\ Len(lab.run.calls) = 4
    /\ Len(lab.run.calls[4].prompt.team_summary) = 3
    /\ lab.run.calls[3].prompt.previous_inputs[2].agent = ML_SPECIALIST

\* C15: when the Completion Client fails during the opinion call of the
\* Immunologist, the ML Specialist or the Computational Biologist, no
\* opinion is substituted, no later call is made, no workflow options are
\* generated and Phase 2 ends with status error.
C15_OpinionFailureAborts ==
    FullAnalysisDone =>
        \A k \in 1..3 :
            (k <= Len(lab.run.calls) /\ ~lab.run.calls[k].outcome.ok) =>
                /\ Len(lab.run.calls) = k
                /\ LabResult.status = "error"
                /\ LabResult.error = "Chat completion failed: timeout"
                /\ "workflow_options" \notin DOMAIN LabResult
                /\ "agent_insights" \notin DOMAIN LabResult
                /\ \A i \in 1..Len(LabEvents) :
                      LabEvents[i].step_name \notin
                          {"Strategy Synthesis", "Workflow Construction"}

\* The call of the Computational Biologist failed.
C15_Witness ==
    /\ FullAnalysisDone
    /\ Len(lab.run.calls) = 3
    /\ ~lab.run.calls[3].outcome.ok
    /\ LabResult.status = "error"

\* C16: each agent operation calls the Completion Client once and never
\* again: a run of analyze_brief makes 1 call, a successful run of
\* generate_full_analysis makes 4 (one per agent, none for the facts), and
\* a run whose k-th call fails makes k calls.
C16_OneCallEach ==
    LabDone =>
        /\ lab.op = "analyze_brief" =>
              /\ Len(lab.run.calls) = 1
              /\ lab.run.calls[1].prompt = extraction_prompt(lab.text)
        /\ (lab.op = "generate_full_analysis"
              /\ LabResult.status = "awaiting_workflow_selection") =>
              /\ Len(lab.run.calls) = 4
              /\ \A k \in 1..4 : lab.run.calls[k].agent = CallOrder[k]
        /\ \A k \in 1..Len(lab.run.calls) :
              ~lab.run.calls[k].outcome.ok => Len(lab.run.calls) = k

\* A run of analyze_brief whose single call failed.
C16_Witness ==
    /\ LabDone
    /\ lab.op = "analyze_brief"
    /\ Len(lab.run.calls) = 1
    /\ ~lab.run.calls[1].outcome.ok
    /\ LabResult.status = "error"

\* The synthesis of a Phase-2 run yielded a strategy (decoded or fallback),
\* so the run went on to _generate_workflow_options.
StrategySynthesized ==
    /\ FullAnalysisDone
    /\ Len(lab.run.calls) = 4
    /\ lab.run.calls[4].outcome.ok

CatalogIds ==
    <<"fetch_candidates", "filter_candidates", "run_esm", "run_alphafold",
      "affinity_maturation", "in_vitro_testing">>

\* C22: the workflow-option generator returns the fixed ordered catalog of
\* six steps and a total_estimated_cost of $350 (0+0+50+200+100, the
\* unselected $15,000 in-vitro step left out), the same for every strategy
\* and every confirmed-facts object it is given.
C22_WorkflowOptionsFixed ==
    StrategySynthesized =>
        /\ "workflow_options" \in DOMAIN LabResult
        /\ [i \in 1..Len(LabResult.workflow_options.steps) |->
                LabResult.workflow_options.steps[i].id] = CatalogIds
        /\ \A i \in 1..6 :
              LabResult.workflow_options.steps[i].selected = (i # 6)
        /\ LabResult.workflow_options.total_estimated_cost = <<"$", "3", "5", "0">>

\* ------------------------------------ properties of the one-shot entry point
\* C23: process_project(text) does what analyze_brief(text) followed by
\* generate_full_analysis(text, the facts of Phase 1) does on the same
\* orchestrator: for the same Completion Client outcomes the callback
\* receives the same events in the same order, the result and the event log
\* are the same and so are the calls; when Phase 1 ends with status error
\* the Phase-1 error result is returned and no Phase-2 call or event is made.
C23_LegacyEqualsTwoPhases ==
    (lab.op = "process_project" /\ "legacy" \in lab.ran /\ "phase_1" \in lab.ran) =>
        /\ ~lab.legacy.ret.raised
        /\ lab.phase_1.ret.value.status = "error" =>
              /\ lab.legacy.ret = lab.phase_1.ret
              /\ lab.legacy.self = lab.phase_1.self
              /\ lab.legacy.calls = lab.phase_1.calls
              /\ Len(lab.legacy.calls) = 1
              /\ Len(lab.legacy.self.events) = 2
        /\ "phase_2" \in lab.ran =>
              /\ lab.legacy.ret = lab.phase_2.ret
              /\ lab.legacy.self = lab.phase_2.self
              /\ lab.legacy.calls = lab.phase_1.calls \o lab.phase_2.calls

\* Both ways ran to the end of a successful Phase 2 with a callback, which
\* received the two events of Phase 1 and the twelve of Phase 2.
C23_Witness ==
    /\ lab.op = "process_project"
    /\ "legacy" \in lab.ran
    /\ "phase_2" \in lab.ran
    /\ lab.legacy.ret.value.status = "awaiting_workflow_selection"
    /\ Len(lab.legacy.self.all_events) = 14
    /\ Len(lab.legacy.ret.value.progress_events) = 12
    /\ Len(lab.legacy.calls) = 5

\* ------------------------- properties of the phases, statement by statement
InFullAnalysis == lab.op = "generate_full_analysis"

\* The steps of Phase 2: the names of the event that opens and of the event
\* that closes each, and, for the steps that call the Completion Client,
\* the agent of the call.
BracketedSteps ==
    << [opens |-> STEP_START, start |-> "Initializing Virtual Lab",
        complete |-> "Virtual Lab Initialized", agent |-> None],
       [opens |-> AGENT_THINKING, start |-> "Immunological Analysis",
        complete |-> "Immunological Analysis Complete", agent |-> IMMUNOLOGIST],
       [opens |-> AGENT_THINKING, start |-> "Machine Learning Analysis",
        complete |-> "ML Analysis Complete", agent |-> ML_SPECIALIST],
       [opens |-> AGENT_THINKING, start |-> "Computational Biology Analysis",
        complete |-> "Computational Biology Complete", agent |-> COMP_BIOLOGIST],
       [opens |-> AGENT_THINKING, start |-> "Strategy Synthesis",
        complete |-> "Strategy Synthesis Complete", agent |-> PI],
       [opens |-> STEP_START, start |-> "Workflow Construction",
        complete |-> "Analysis Complete", agent |-> None] >>

IsStartOf(event, k) ==
    /\ event.event_type = BracketedSteps[k].opens
    /\ event.step_name = BracketedSteps[k].start

IsCompleteOf(event, k) ==
    /\ event.event_type = STEP_COMPLETE
    /\ event.step_name = BracketedSteps[k].complete

\* The log is start, complete, start, complete, ... in the order of the
\* steps, with at most one Error event, which is last and follows a start.
LogIsBracketed(events) ==
    \A i \in 1..Len(events) :
        IF i % 2 = 1 THEN IsStartOf(events[i], (i + 1) \div 2)
        ELSE \/ IsCompleteOf(events[i], i \div 2)
             \/ events[i].event_type = ERROR /\ i = Len(events)

\* The k-th Completion Client call belongs to step k + 1.
CallOfStepIsBracketed(k) ==
    LET events == lab.self.events IN
    /\ Len(lab.calls) >= k =>
          /\ Len(events) >= 2 * k + 1
          /\ lab.calls[k].agent = BracketedSteps[k + 1].agent
    /\ (Len(events) >= 2 * k + 2 /\ IsCompleteOf(events[2 * k + 2], k + 1)) =>
          /\ Len(lab.calls) >= k
          /\ lab.calls[k].outcome.ok
          /\ IF k <= 3
             THEN /\ Len(lab.state.agent_inputs) >= k
                  /\ lab.state.agent_inputs[k].agent = BracketedSteps[k + 1].agent
             ELSE "strategy" \in DOMAIN lab.locals

\* C28: at every point of a Phase-2 invocation the log is a sequence of
\* bracketed steps: the start event of an agent step is in the log when
\* the Completion Client call of the step is made, and the StepComplete
\* event of the step is in the log only when the call has returned and the
\* opinion (the strategy, for the synthesis) is recorded; a failed run ends
\* with the start and complete events of the steps before the failing one,
\* the start event of the failing step, and the Error event.
C28_StepsBracketed ==
    (InFullAnalysis /\ lab.at > 1) =>
        /\ LogIsBracketed(lab.self.events)
        /\ \A k \in 1..4 : CallOfStepIsBracketed(k)
        /\ (lab.pc = "done" /\ lab.ret.value.status = "error") =>
              /\ Last(lab.self.events).event_type = ERROR
              /\ lab.ret.value.progress_events = lab.self.events
        /\ (lab.pc = "done" /\ lab.ret.value.status # "error") =>
              Len(lab.self.events) = 2 * Len(BracketedSteps)

\* The ML Specialist call fails: the log holds two whole steps, the start
\* event of the third, and the Error event.
C28_Witness ==
    /\ InFullAnalysis
    /\ lab.pc = "done"
    /\ lab.ret.value.status = "error"
    /\ Len(lab.calls) = 2
    /\ ~lab.calls[2].outcome.ok
    /\ Len(lab.self.events) = 6
    /\ IsCompleteOf(lab.self.events[4], 2)
    /\ IsStartOf(lab.self.events[5], 3)

\* C29: when the progress callback raises while an event is emitted, the
\* phase still returns a result with status "error": no exception leaves
\* analyze_brief or generate_full_analysis.
C29_CallbackErrorCaught ==
    lab.op \in {"analyze_brief", "generate_full_analysis"} =>
        /\ lab.pc # "raised"
        /\ (lab.pc = "done" /\ lab.exc = CallbackError) =>
              /\ lab.ret.value.status = "error"
              /\ lab.ret.value.error = CallbackError

\* The events the callback was invoked with during this invocation.
Received ==
    SubSeq(lab.self.all_events, lab.received_before + 1, Len(lab.self.all_events))

\* The first statement of a phase is the reset of the log.
AtReset == lab.pc = "try" /\ lab.at = 1

\* C30: within one phase invocation a step either leaves the log as it is
\* or appends one event to it, keeping the events already there in place;
\* only the first statement of the invocation empties it; and, from then
\* on, when a callback was given, the events the callback was invoked with
\* during the invocation are exactly the log, in the same order.
C30_LogAppendOnly ==
    /\ [](lab.self.progress_callback /\ ~AtReset => Received = lab.self.events)
    /\ [][IF AtReset
          THEN lab'.self.events = <<>> /\ lab'.self.all_events = lab.self.all_events
          ELSE /\ IsPrefix(lab.self.events, lab'.self.events)
               /\ Len(lab'.self.events) <= Len(lab.self.events) + 1
               /\ IsPrefix(lab.self.all_events, lab'.self.all_events)]_vars

\* A Phase-2 invocation on an orchestrator that holds the log of Phase 1
\* has run to the end with a callback: the log was emptied once and holds
\* the twelve events the callback received.
C30_Witness ==
    /\ InFullAnalysis
    /\ lab.pc = "done"
    /\ lab.self.progress_callback
    /\ lab.received_before = 2
    /\ Len(lab.self.events) = 12
    /\ Len(lab.self.all_events) = 14

\* ------------------------------------- properties of two concurrent confirms
\* The log of one run of Phase 2: bracketed steps in order, ending with the
\* Error event exactly when the run failed.
IsLogOfOneRun(log, result) ==
    /\ LogIsBracketed(log)
    /\ result.progress_events = log
    /\ IF result.status = "error"
       THEN Last(log).event_type = ERROR
       ELSE Len(log) = 2 * Len(BracketedSteps)

\* C35: with two streaming confirms in flight, for one session or for two,
\* and a non-streaming confirm among their steps, the events each
\* generator holds are the log of its own run and nothing else, the
\* progress messages it has sent are a prefix of that log, in order, and
\* the log a non-streaming confirm returns is the log of one whole run.
C35_RunsIsolated ==
    /\ \A s \in DOMAIN streams :
          LET st == streams[s] IN
          /\ st.task # "done" =>
                st.all_events = <<>> /\ ProgressEvents(st.sent) = <<>>
          /\ st.task = "done" =>
                /\ IsLogOfOneRun(st.all_events, st.task_result.value)
                /\ IsPrefix(ProgressEvents(st.sent), st.all_events)
    /\ (http.handler = "confirm_understanding" /\ http.status_code = 200) =>
          /\ LogIsBracketed(http.body.progress_events)
          /\ Len(http.body.progress_events) = 2 * Len(BracketedSteps)

\* Two generators for the same session are both in the middle of sending:
\* one run failed, the other succeeded, and each has sent some of its
\* events.
C35_Witness ==
    /\ streams[1].project_id = streams[2].project_id
    /\ streams[1].task = "done" /\ streams[2].task = "done"
    /\ streams[1].task_result.value.status = "error"
    /\ streams[2].task_result.value.status # "error"
    /\ streams[1].pc = "yield_flush" /\ streams[2].pc = "yield_flush"
    /\ Len(streams[1].sent) = 2
    /\ Len(streams[2].sent) = 3

\* ------------------------------------------ properties of the response parser
ParseDone == lab.pc = "done" /\ lab.op = "_parse_response"

\* C17: _parse_response is total: for every response text it returns a
\* value and never raises.
C17_ParserTotal ==
    ParseDone => ~lab.ret.raised

\* C18: for every response text that contains "confidence: 0.85", whatever
\* precedes or follows it, the parsed confidence is 0.85.
C18_ConfidenceRead ==
    (ParseDone /\ str_contains(lab.response, ConfidenceWord \o <<":", " ", "0", ".", "8", "5">>)) =>
        /\ ~lab.ret.raised
        /\ DecimalEquals(lab.ret.value.confidence, Decimal(85, 2))

\* The lines of a text whose trimmed form begins with "- ", each without
\* the marker (and without the blanks around what is left).
BulletLines(response) ==
    LET lines == str_split(str_strip(response, Whitespace), "\n")
        marked == SelectSeq(lines,
                      LAMBDA line : str_startswith(str_strip(line, Whitespace), BulletMarker))
    IN  [i \in 1..Len(marked) |->
            str_strip(SubSeq(str_strip(marked[i], Whitespace), 3,
                             Len(str_strip(marked[i], Whitespace))), Whitespace)]

\* C19: the parsed reasoning is exactly the lines whose trimmed form begins
\* with "- ", in their order, each with only the leading marker removed and
\* the rest of the line unchanged.
C19_ReasoningIsBulletLines ==
    (ParseDone /\ ~lab.ret.raised) =>
        lab.ret.value.reasoning = BulletLines(lab.response)

\* The text holds "de novo" in some letter case.
HoldsDeNovo(response) ==
    \E i \in 1..(Len(response) - 6) :
        /\ response[i] \in {"d", "D"}
        /\ response[i + 1] \in {"e", "E"}
        /\ response[i + 2] = " "
        /\ response[i + 3] \in {"n", "N"}
        /\ response[i + 4] \in {"o", "O"}
        /\ response[i + 5] \in {"v", "V"}
        /\ response[i + 6] \in {"o", "O"}

AnyCase(c) ==
    {c} \cup {UpperLetters[k] : k \in {k \in 1..26 : LowerLetters[k] = c}}

\* The text holds the lowercase word in some letter case.
HoldsWord(response, word) ==
    \E i \in 1..(Len(response) - Len(word) + 1) :
        \A k \in 1..Len(word) : response[i + k - 1] \in AnyCase(word[k])

\* C21: for every response text in which the word confidence does not
\* occur in any letter case, the parser returns and the confidence is
\* exactly the default 0.7.
C21_DefaultConfidence ==
    (ParseDone /\ ~HoldsWord(lab.response, ConfidenceWord)) =>
        /\ ~lab.ret.raised
        /\ lab.ret.value.confidence = Decimal(7, 1)

\* A text with a number and a lone dot but without the word was given the
\* default.
C21_Witness ==
    /\ ParseDone
    /\ ~HoldsWord(lab.response, ConfidenceWord)
    /\ str_contains(lab.response, <<"0", ".", "8", "5">>)
    /\ ~lab.ret.raised
    /\ lab.ret.value.confidence = Decimal(7, 1)

====
